---- MODULE Spec2Model ----
(***************************************************************************)
(* Verification model of TelegramBotForCats: the notification scheduler    *)
(* (bot/scheduler.py) with the storage operations it calls (bot/db/repo.py)*)
(* and the handlers that reschedule (bot/handlers/menu.py), the retry      *)
(* delay table (bot/utils/retry.py) and the sender's retry loop            *)
(* (bot/notify/sender.py).                                                 *)
(***************************************************************************)
EXTENDS Integers, Sequences, FiniteSets, TLC

VARIABLES
    chats,      \* table chats: chat_id -> [exists, enabled]
    rules,      \* table rules: rule id -> row (NoRule when there is no row)
    gen,        \* app.bot_data["rule_generation"]: a dict keyed by <<chat_id, rule_id, job_kind>>
    timers,     \* the job queue: the timers armed by run_once / run_daily
    inflight,   \* executions of send_notification_job suspended in `await send_rule_notification`
    pending,    \* chats whose toggle_chat handler is suspended in `await edit_text`
    now,        \* int(time.time())
    budget,     \* what is left of MaxAdmin and MaxFire: [admin, fire]
    last,       \* the step taken last (history, for stating the properties)
    pcall,      \* the function called on its own: its name and arguments
    pret,       \* what that call returned
    sender,     \* one run of TelegramSender._call_with_retries
    user_data,  \* context.user_data of one user: the keys draft_rule and awaiting_photo
    rule_seq,   \* the last id given to a row of rules (INTEGER PRIMARY KEY AUTOINCREMENT)
    bot_data,   \* application.bot_data: admin_check_cache, startup_scheduling_done
    tasks       \* the handler and startup tasks under way, each with its position

vars == <<chats, rules, gen, timers, inflight, pending, now, budget, last, pcall, pret, sender,
          user_data, rule_seq, bot_data, tasks>>

\* what the scheduler's steps leave alone
callVars == <<pcall, pret, sender, user_data, rule_seq, bot_data, tasks>>

-----------------------------------------------------------------------------
(* Program constants *)

MAX_SEND_RETRY_ATTEMPTS == 3
JOB_KIND_RULE == "rule"
JOB_KIND_RETRY == "rule_retry"
JobKinds == {JOB_KIND_RULE, JOB_KIND_RETRY}

(* Bounds of the model *)

\* the old chat id and the supergroup id it migrates to
ChatIds == {1, 2}
\* rule 1 is an interval rule, rule 2 a weekly rule
RuleIds == {1, 2}
\* the clock at startup
StartTs == 600
\* the distance from now to the next occurrence of a run_daily timer
WeeklyGap == 24 * 60 * 60
\* handler runs (commands, button presses, service messages) after the initial state
MaxAdmin == 1
\* timer firings after the initial state
MaxFire == 1

-----------------------------------------------------------------------------
(* Retry delay table *)

\* variant: the third step of the table comes one attempt late
compute_retry_delay_s_late(attempt) ==
    IF attempt <= 1 THEN 60
    ELSE IF attempt <= 3 THEN 120
    ELSE 300

compute_retry_delay_s(attempt) ==
    IF attempt <= 1 THEN 60
    ELSE IF attempt = 2 THEN 120
    ELSE 300

_retry_delay_seconds(retry_attempt) == compute_retry_delay_s(retry_attempt)

\* _retry_dt at clock value now_ts
_retry_dt(retry_attempt, now_ts) == now_ts + _retry_delay_seconds(retry_attempt)

\* Python's `a or b` on integers (None and 0 are both falsy; NULL is stored as 0 here)
PyOr(a, b) == IF a # 0 THEN a ELSE b

\* variant: the period boundary at or before now (n without its + 1)
_compute_next_interval_run_dt_floor(rule, now_ts) ==
    LET interval_sec == rule.interval_minutes * 60
        anchor_ts == PyOr(PyOr(rule.last_sent_at_ts, rule.created_at_ts), now_ts)
    IN  IF interval_sec <= 0 THEN now_ts + 60
        ELSE IF now_ts < anchor_ts THEN anchor_ts + interval_sec
        ELSE anchor_ts + ((now_ts - anchor_ts) \div interval_sec) * interval_sec

\* _compute_next_interval_run_dt at clock value now_ts
_compute_next_interval_run_dt(rule, now_ts) ==
    LET interval_sec == rule.interval_minutes * 60
        anchor_ts == PyOr(PyOr(rule.last_sent_at_ts, rule.created_at_ts), now_ts)
    IN  IF interval_sec <= 0 THEN now_ts + 60
        ELSE IF now_ts < anchor_ts THEN anchor_ts + interval_sec
        ELSE anchor_ts + (((now_ts - anchor_ts) \div interval_sec) + 1) * interval_sec

-----------------------------------------------------------------------------
(* Generation tokens *)

GenKey(chat_id, rule_id, job_kind) == <<chat_id, rule_id, job_kind>>

\* store.get(key) is not None
HasGeneration(store, chat_id, rule_id, job_kind) ==
    GenKey(chat_id, rule_id, job_kind) \in DOMAIN store

\* the store after _bump_rule_generation; the value it returns is the new store's entry
_bump_rule_generation(store, chat_id, rule_id, job_kind) ==
    LET key == GenKey(chat_id, rule_id, job_kind)
        old == IF key \in DOMAIN store THEN store[key] ELSE 0
    IN  [k \in (DOMAIN store) \cup {key} |-> IF k = key THEN old + 1 ELSE store[k]]

_job_kind_from_name(job_name) ==
    IF job_name = "rule_retry" THEN JOB_KIND_RETRY ELSE JOB_KIND_RULE

\* variant: a key without a stored generation makes every job stale
_job_is_stale_unknown(store, chat_id, rule_id, job_kind, job_generation) ==
    IF ~HasGeneration(store, chat_id, rule_id, job_kind) THEN TRUE
    ELSE job_generation # store[GenKey(chat_id, rule_id, job_kind)]

_job_is_stale(store, chat_id, rule_id, job_kind, job_generation) ==
    IF ~HasGeneration(store, chat_id, rule_id, job_kind) THEN FALSE
    ELSE job_generation # store[GenKey(chat_id, rule_id, job_kind)]

-----------------------------------------------------------------------------
(* Storage *)

\* NULL in the columns system_key and time_hhmm, and in sort_order
NoKey == ""
NoTime == ""
NoSortOrder == 0 - 1

\* a row of rules that is not there.  days is the set the column's "0,2,4" lists,
\* images the rows of rule_image_options and rule_text_options of the rule
NoRule == [id |-> 0, exists |-> FALSE, chat_id |-> 0, kind |-> "none", enabled |-> FALSE,
           interval_minutes |-> 0, created_at_ts |-> 0, last_sent_at_ts |-> 0,
           title |-> "", days |-> {}, time_hhmm |-> NoTime, is_system |-> FALSE,
           system_key |-> NoKey, user_customized |-> FALSE, sort_order |-> NoSortOrder,
           images |-> <<>>, message_text |-> "", image_file_id |-> ""]

NoChat == [exists |-> FALSE, enabled |-> FALSE, timezone |-> "", image_file_id |-> "",
           include_meta |-> FALSE]

\* _get_default_timezone: the timezone of a first row of chats, else Europe/Moscow
_get_default_timezone(C) ==
    IF \E c \in DOMAIN C : C[c].exists
    THEN C[CHOOSE c \in DOMAIN C : C[c].exists /\ \A d \in DOMAIN C : C[d].exists => c <= d].timezone
    ELSE "Europe/Moscow"

\* INSERT OR IGNORE INTO chats(chat_id, enabled, timezone, include_meta) VALUES(?, 1, ?, 1)
upsert_chat(C, chat_id) ==
    IF C[chat_id].exists THEN C
    ELSE [C EXCEPT ![chat_id] = [exists |-> TRUE, enabled |-> TRUE,
                                 timezone |-> _get_default_timezone(C),
                                 image_file_id |-> "", include_meta |-> TRUE]]

\* the row get_rule returns (NoRule for None), read after its upsert_chat
get_rule(R, chat_id, rule_id) ==
    IF R[rule_id].exists /\ R[rule_id].chat_id = chat_id THEN R[rule_id] ELSE NoRule

\* the ids of the rows get_rules returns
get_rules(R, chat_id) == {r \in DOMAIN R : R[r].exists /\ R[r].chat_id = chat_id}

set_chat_enabled(C, chat_id, enabled) ==
    [upsert_chat(C, chat_id) EXCEPT ![chat_id].enabled = enabled]

toggle_rule_enabled(R, chat_id, rule_id) ==
    IF get_rule(R, chat_id, rule_id).exists
    THEN [R EXCEPT ![rule_id].enabled = ~R[rule_id].enabled,
                   ![rule_id].user_customized = IF R[rule_id].is_system THEN TRUE ELSE @]
    ELSE R

set_rule_last_sent_at_ts(R, chat_id, rule_id, ts) ==
    IF get_rule(R, chat_id, rule_id).exists
    THEN [R EXCEPT ![rule_id].last_sent_at_ts = ts]
    ELSE R

delete_rule(R, chat_id, rule_id) ==
    IF get_rule(R, chat_id, rule_id).exists THEN [R EXCEPT ![rule_id] = NoRule] ELSE R

\* migrate_chat_id giving a new chat without a row the settings of upsert_chat
migrate_chat_id_defaults(S, old_id, new_id) ==
    IF old_id = new_id \/ ~S.chats[old_id].exists THEN S
    ELSE [S EXCEPT
            !.chats = [c \in DOMAIN S.chats |->
                         IF c = new_id
                         THEN IF S.chats[new_id].exists THEN S.chats[old_id]
                              ELSE upsert_chat(S.chats, new_id)[new_id]
                         ELSE IF c = old_id THEN NoChat
                         ELSE S.chats[c]],
            !.rules = [r \in DOMAIN S.rules |->
                         IF S.rules[r].exists /\ S.rules[r].chat_id = old_id
                         THEN [S.rules[r] EXCEPT !.chat_id = new_id]
                         ELSE S.rules[r]]]

\* migrate_chat_id deleting the old chat's rules whose system_key the new chat has
migrate_chat_id_dropping_old(S, old_id, new_id) ==
    IF old_id = new_id \/ ~S.chats[old_id].exists THEN S
    ELSE LET keys == {S.rules[r].system_key :
                        r \in {q \in DOMAIN S.rules :
                                 /\ S.rules[q].exists /\ S.rules[q].chat_id = new_id
                                 /\ S.rules[q].system_key # NoKey}}
         IN [S EXCEPT
               !.chats = [c \in DOMAIN S.chats |->
                            IF c = new_id THEN S.chats[old_id]
                            ELSE IF c = old_id THEN NoChat
                            ELSE S.chats[c]],
               !.rules = [r \in DOMAIN S.rules |->
                            IF S.rules[r].exists /\ S.rules[r].chat_id = old_id
                            THEN IF S.rules[r].system_key \in keys THEN NoRule
                                 ELSE [S.rules[r] EXCEPT !.chat_id = new_id]
                            ELSE S.rules[r]]]

\* migrate_chat_id without its DELETE of the new chat's rules
migrate_chat_id_colliding(S, old_id, new_id) ==
    IF old_id = new_id \/ ~S.chats[old_id].exists THEN S
    ELSE [S EXCEPT
            !.chats = [c \in DOMAIN S.chats |->
                         IF c = new_id THEN S.chats[old_id]
                         ELSE IF c = old_id THEN NoChat
                         ELSE S.chats[c]],
            !.rules = [r \in DOMAIN S.rules |->
                         IF S.rules[r].exists /\ S.rules[r].chat_id = old_id
                         THEN [S.rules[r] EXCEPT !.chat_id = new_id]
                         ELSE S.rules[r]]]

\* migrate_chat_id on the two tables: S is [chats, rules, ...].  The new chat's
\* row takes the four settings of the old one; the new chat's rules whose
\* system_key the old chat has too are deleted (their option rows go with them,
\* ON DELETE CASCADE), then the old chat's rules are re-parented and its row deleted.
migrate_chat_id(S, old_id, new_id) ==
    IF old_id = new_id \/ ~S.chats[old_id].exists THEN S
    ELSE LET keys == {S.rules[r].system_key :
                        r \in {q \in DOMAIN S.rules :
                                 /\ S.rules[q].exists /\ S.rules[q].chat_id = old_id
                                 /\ S.rules[q].system_key # NoKey}}
         IN [S EXCEPT
               !.chats = [c \in DOMAIN S.chats |->
                            IF c = new_id THEN S.chats[old_id]
                            ELSE IF c = old_id THEN NoChat
                            ELSE S.chats[c]],
               !.rules = [r \in DOMAIN S.rules |->
                            IF S.rules[r].exists /\ S.rules[r].chat_id = new_id
                               /\ S.rules[r].system_key \in keys
                            THEN NoRule
                            ELSE IF S.rules[r].exists /\ S.rules[r].chat_id = old_id
                            THEN [S.rules[r] EXCEPT !.chat_id = new_id]
                            ELSE S.rules[r]]]

-----------------------------------------------------------------------------
(* The job queue.  S is the program state [chats, rules, gen, timers, now]. *)

\* A timer of the job queue. name is the part of the job name before the colon
\* ("rule:<id>" / "rule_retry:<id>"), the other fields are job.data and the trigger.
\* removed: schedule_removal() was called on it.  superseded (history): a
\* reschedule_chat_jobs / reschedule_rule_job ran for its rule after it was armed.
Timer(name, chat_id, rule_id, retry_attempt, g, run_at, recurring) ==
    [name |-> name, chat_id |-> chat_id, rule_id |-> rule_id, retry_attempt |-> retry_attempt,
     gen |-> g, run_at |-> run_at, recurring |-> recurring, removed |-> FALSE,
     superseded |-> FALSE, days |-> {}]

_jobs_by_name(S, name, rule_id) == {t \in S.timers : t.name = name /\ t.rule_id = rule_id}

\* job.schedule_removal() on each of these jobs.  The removal is a request: a
\* timer that is not yet due leaves the queue, a timer that is already due may
\* have been handed to the executor and stays, marked, and may still run.
schedule_removal(S, jobs) ==
    [S EXCEPT !.timers = (S.timers \ jobs)
        \cup {[t EXCEPT !.removed = TRUE] : t \in {j \in jobs : j.run_at <= S.now}}]

_remove_interval_job_only(S, rule_id) ==
    schedule_removal(S, _jobs_by_name(S, "rule", rule_id))

_remove_weekly_retry_job(S, rule_id) ==
    schedule_removal(S, _jobs_by_name(S, "rule_retry", rule_id))

_remove_rule_job(S, rule_id) ==
    _remove_weekly_retry_job(_remove_interval_job_only(S, rule_id), rule_id)

\* `for rid in rule_ids: _remove_rule_job(app, rule_id=rid)`, in id order
RECURSIVE _remove_chat_jobs_by_rule_ids(_, _)
_remove_chat_jobs_by_rule_ids(S, rule_ids) ==
    IF rule_ids = {} THEN S
    ELSE LET r == CHOOSE x \in rule_ids : \A y \in rule_ids : x <= y
         IN  _remove_chat_jobs_by_rule_ids(_remove_rule_job(S, r), rule_ids \ {r})

\* history: the timers of these rules that outlive a reschedule were armed before it
MarkSuperseded(S, rule_ids) ==
    [S EXCEPT !.timers =
        {IF t.rule_id \in rule_ids THEN [t EXCEPT !.superseded = TRUE] ELSE t : t \in S.timers}]

\* Storage weekdays are Mon=0..Sun=6
Weekdays == 0..6

\* variant: the stored weekday handed over as it is
python_weekday_to_jobqueue_stored(day) == day % 7

\* the weekday run_daily takes, Sun=0..Sat=6
python_weekday_to_jobqueue(day) == (day + 1) % 7

\* the next occurrence of a run_daily timer is some instant after now
NextOccurrence(now_ts) == now_ts + WeeklyGap

_schedule_interval_run(S, chat_id, rule, retry_attempt, g) ==
    LET run_at == IF retry_attempt <= 0 THEN _compute_next_interval_run_dt(rule, S.now)
                  ELSE _retry_dt(retry_attempt, S.now)
        S1 == _remove_interval_job_only(S, rule.id)
    IN  [S1 EXCEPT !.timers = S1.timers
                    \cup {Timer("rule", chat_id, rule.id, retry_attempt, g, run_at, FALSE)}]

\* variant: the retry timer takes the stored generation without bumping it
_schedule_weekly_retry_unbumped(S, chat_id, rule_id, retry_attempt) ==
    LET g == IF HasGeneration(S.gen, chat_id, rule_id, JOB_KIND_RETRY)
             THEN S.gen[GenKey(chat_id, rule_id, JOB_KIND_RETRY)] ELSE 0
        S1 == _remove_weekly_retry_job(S, rule_id)
    IN  [S1 EXCEPT !.timers = S1.timers
                    \cup {Timer("rule_retry", chat_id, rule_id, retry_attempt, g,
                                _retry_dt(retry_attempt, S.now), FALSE)}]

_schedule_weekly_retry(S, chat_id, rule_id, retry_attempt) ==
    LET G == _bump_rule_generation(S.gen, chat_id, rule_id, JOB_KIND_RETRY)
        g == G[GenKey(chat_id, rule_id, JOB_KIND_RETRY)]
        S1 == _remove_weekly_retry_job([S EXCEPT !.gen = G], rule_id)
    IN  [S1 EXCEPT !.timers = S1.timers
                    \cup {Timer("rule_retry", chat_id, rule_id, retry_attempt, g,
                                _retry_dt(retry_attempt, S.now), FALSE)}]

_schedule_rule_job(S, chat_id, rule) ==
    LET G == _bump_rule_generation(S.gen, chat_id, rule.id, JOB_KIND_RULE)
        g == G[GenKey(chat_id, rule.id, JOB_KIND_RULE)]
    IN  IF rule.kind = "weekly"
        THEN [S EXCEPT !.gen = G,
                       !.timers = S.timers
                         \cup {[Timer("rule", chat_id, rule.id, 0, g, NextOccurrence(S.now), TRUE)
                                   EXCEPT !.days = {python_weekday_to_jobqueue(d) : d \in rule.days}]}]
        ELSE IF rule.kind = "interval"
        THEN _schedule_interval_run([S EXCEPT !.gen = G], chat_id, rule, 0, g)
        ELSE S

\* `for r in rules: if r["enabled"]: _schedule_rule_job(...)`, in id order
RECURSIVE ScheduleEnabled(_, _, _)
ScheduleEnabled(S, chat_id, ids) ==
    IF ids = {} THEN S
    ELSE LET r == CHOOSE x \in ids : \A y \in ids : x <= y
             S1 == IF S.rules[r].enabled THEN _schedule_rule_job(S, chat_id, S.rules[r]) ELSE S
         IN  ScheduleEnabled(S1, chat_id, ids \ {r})

\* variant: without the return on a disabled chat
reschedule_chat_jobs_always(S, chat_id) ==
    LET S0 == [S EXCEPT !.chats = upsert_chat(S.chats, chat_id)]
        rule_ids == get_rules(S0.rules, chat_id)
        S1 == MarkSuperseded(_remove_chat_jobs_by_rule_ids(S0, rule_ids), rule_ids)
    IN  ScheduleEnabled(S1, chat_id, rule_ids)

reschedule_chat_jobs(S, chat_id) ==
    LET S0 == [S EXCEPT !.chats = upsert_chat(S.chats, chat_id)]
        rule_ids == get_rules(S0.rules, chat_id)
        S1 == MarkSuperseded(_remove_chat_jobs_by_rule_ids(S0, rule_ids), rule_ids)
    IN  IF ~S1.chats[chat_id].enabled THEN S1
        ELSE ScheduleEnabled(S1, chat_id, rule_ids)

\* variant: a single-rule edit reschedules the whole chat
reschedule_rule_job_chatwide(S, chat_id, rule_id) == reschedule_chat_jobs(S, chat_id)

reschedule_rule_job(S, chat_id, rule_id) ==
    LET S0 == MarkSuperseded(_remove_rule_job(S, rule_id), {rule_id})
        S1 == [S0 EXCEPT !.chats = upsert_chat(S0.chats, chat_id)]
        rule == get_rule(S1.rules, chat_id, rule_id)
    IN  IF ~S1.chats[chat_id].enabled THEN S1
        ELSE IF ~rule.exists \/ ~rule.enabled THEN S1
        ELSE _schedule_rule_job(S1, chat_id, rule)

-----------------------------------------------------------------------------
(* send_notification_job *)

\* the queue after timer t has run: a run_once timer is gone, a run_daily timer
\* waits for its next occurrence unless its removal was requested
AfterRun(S, t) ==
    [S EXCEPT !.timers =
        IF t.recurring /\ ~t.removed
        THEN (S.timers \ {t}) \cup {[t EXCEPT !.run_at = NextOccurrence(S.now)]}
        ELSE S.timers \ {t}]

\* the execution of timer t, as it is when it reaches the send
Execution(S, t) ==
    [chat_id |-> t.chat_id, rule_id |-> t.rule_id, job_kind |-> _job_kind_from_name(t.name),
     retry_attempt |-> t.retry_attempt, rule |-> get_rule(S.rules, t.chat_id, t.rule_id),
     superseded |-> t.superseded]

\* variant: the generation is bumped before the chat and rule are looked at
before_send_bumping(S, t) ==
    LET S1 == AfterRun([S EXCEPT !.chats = upsert_chat(S.chats, t.chat_id),
                                 !.gen = _bump_rule_generation(S.gen, t.chat_id, t.rule_id,
                                                               _job_kind_from_name(t.name))], t)
        rule == get_rule(S.rules, t.chat_id, t.rule_id)
    IN  [S |-> S1,
         op |-> IF ~S1.chats[t.chat_id].enabled THEN "chat_disabled"
                ELSE IF ~rule.exists THEN "rule_gone"
                ELSE IF ~rule.enabled THEN "rule_disabled"
                ELSE "send"]

\* send_notification_job from its start to `await send_rule_notification`:
\* what it decides ("send", or why it returns) and the state it leaves
before_send(S, t) ==
    LET S1 == AfterRun([S EXCEPT !.chats = upsert_chat(S.chats, t.chat_id)], t)
        rule == get_rule(S.rules, t.chat_id, t.rule_id)
    IN  [S |-> S1,
         op |-> IF ~S1.chats[t.chat_id].enabled THEN "chat_disabled"
                ELSE IF ~rule.exists THEN "rule_gone"
                ELSE IF ~rule.enabled THEN "rule_disabled"
                ELSE IF _job_is_stale(S.gen, t.chat_id, t.rule_id,
                                      _job_kind_from_name(t.name), t.gen) THEN "stale"
                ELSE "send"]

\* send_notification_job after a send that succeeded
on_success(S, f) ==
    LET S1 == IF f.job_kind = JOB_KIND_RETRY THEN _remove_weekly_retry_job(S, f.rule_id) ELSE S
    IN  IF f.rule.kind = "interval"
        THEN LET R2 == set_rule_last_sent_at_ts(S1.rules, f.chat_id, f.rule_id, S.now)
                 C2 == upsert_chat(S1.chats, f.chat_id)
                 rule2 == [f.rule EXCEPT !.last_sent_at_ts = S.now]
                 G == _bump_rule_generation(S1.gen, f.chat_id, f.rule_id, JOB_KIND_RULE)
             IN  _schedule_interval_run(
                     [S1 EXCEPT !.rules = R2, !.chats = C2, !.gen = G],
                     f.chat_id, rule2, 0, G[GenKey(f.chat_id, f.rule_id, JOB_KIND_RULE)])
        ELSE S1

\* variant: one more short retry before the fall back to the regular schedule
on_failure_extra(S, f) ==
    LET next_attempt == f.retry_attempt + 1
    IN  IF f.rule.kind = "interval"
        THEN LET G == _bump_rule_generation(S.gen, f.chat_id, f.rule_id, JOB_KIND_RULE)
                 g == G[GenKey(f.chat_id, f.rule_id, JOB_KIND_RULE)]
                 S1 == [S EXCEPT !.gen = G]
             IN  IF next_attempt <= MAX_SEND_RETRY_ATTEMPTS + 1
                 THEN _schedule_interval_run(S1, f.chat_id, f.rule, next_attempt, g)
                 ELSE _schedule_interval_run(S1, f.chat_id, f.rule, 0, g)
        ELSE IF next_attempt <= MAX_SEND_RETRY_ATTEMPTS
             THEN _schedule_weekly_retry(S, f.chat_id, f.rule_id, next_attempt)
             ELSE S

\* send_notification_job after a send that raised a delivery error
on_failure(S, f) ==
    LET next_attempt == f.retry_attempt + 1
    IN  IF f.rule.kind = "interval"
        THEN LET G == _bump_rule_generation(S.gen, f.chat_id, f.rule_id, JOB_KIND_RULE)
                 g == G[GenKey(f.chat_id, f.rule_id, JOB_KIND_RULE)]
                 S1 == [S EXCEPT !.gen = G]
             IN  IF next_attempt <= MAX_SEND_RETRY_ATTEMPTS
                 THEN _schedule_interval_run(S1, f.chat_id, f.rule, next_attempt, g)
                 ELSE _schedule_interval_run(S1, f.chat_id, f.rule, 0, g)
        ELSE IF next_attempt <= MAX_SEND_RETRY_ATTEMPTS
             THEN _schedule_weekly_retry(S, f.chat_id, f.rule_id, next_attempt)
             ELSE S

\* variant: the migration ends with reschedule_chat_jobs, without the quick retry
on_chat_migrated_rescheduled(S, f, new_chat_id) ==
    LET S0 == [S EXCEPT !.chats = upsert_chat(S.chats, f.chat_id)]
        old_rule_ids == get_rules(S0.rules, f.chat_id)
        S1 == migrate_chat_id(S0, f.chat_id, new_chat_id)
    IN  reschedule_chat_jobs(_remove_chat_jobs_by_rule_ids(S1, old_rule_ids), new_chat_id)

\* send_notification_job after a send that raised ChatMigrated with new_chat_id
on_chat_migrated(S, f, new_chat_id) ==
    LET S0 == [S EXCEPT !.chats = upsert_chat(S.chats, f.chat_id)]
        old_rule_ids == get_rules(S0.rules, f.chat_id)
        S1 == migrate_chat_id(S0, f.chat_id, new_chat_id)
        S2 == _remove_chat_jobs_by_rule_ids(S1, old_rule_ids)
        S3 == reschedule_chat_jobs(S2, new_chat_id)
        migrated_rule == get_rule(S3.rules, new_chat_id, f.rule_id)
    IN  IF migrated_rule.exists /\ migrated_rule.enabled
        THEN IF migrated_rule.kind = "interval"
             THEN LET G == _bump_rule_generation(S3.gen, new_chat_id, f.rule_id, JOB_KIND_RULE)
                  IN  _schedule_interval_run([S3 EXCEPT !.gen = G], new_chat_id, migrated_rule,
                                             1, G[GenKey(new_chat_id, f.rule_id, JOB_KIND_RULE)])
             ELSE _schedule_weekly_retry(S3, new_chat_id, f.rule_id, 1)
        ELSE S3

-----------------------------------------------------------------------------
(* The scheduler's state machine *)

Cur == [chats |-> chats, rules |-> rules, gen |-> gen, timers |-> timers, now |-> now]

Commit(S) ==
    /\ chats' = S.chats
    /\ rules' = S.rules
    /\ gen' = S.gen
    /\ timers' = S.timers
    /\ now' = S.now

\* the step taken: op, and for a step of send_notification_job the job it ran
Ev(op, chat_id, rule_id, job_kind, retry_attempt, rule, superseded) ==
    [op |-> op, chat_id |-> chat_id, rule_id |-> rule_id, job_kind |-> job_kind,
     retry_attempt |-> retry_attempt, rule |-> rule, superseded |-> superseded]

AdminEv(op, chat_id, rule_id) == Ev(op, chat_id, rule_id, "none", 0, NoRule, FALSE)

\* a step of send_notification_job: the job's data and the rule row it loaded
JobEv(op, f) ==
    Ev(op, f.chat_id, f.rule_id, f.job_kind, f.retry_attempt, f.rule, f.superseded)

\* the chat that chat_id migrates to (ChatMigrated.new_chat_id), 0 when there is none
NewChatId(chat_id) == IF chat_id + 1 \in ChatIds THEN chat_id + 1 ELSE 0

\* storage as an earlier run left it: chat 1 with an interval rule and a weekly rule
BootState ==
    [chats |-> upsert_chat([c \in ChatIds |-> NoChat], 1),
     rules |-> [r \in RuleIds |->
                  [NoRule EXCEPT
                     !.id = r, !.exists = TRUE, !.chat_id = 1,
                     !.kind = IF r = 1 THEN "interval" ELSE "weekly", !.enabled = TRUE,
                     !.interval_minutes = IF r = 1 THEN 2 ELSE 0,
                     !.days = IF r = 1 THEN {} ELSE {0},
                     !.time_hhmm = IF r = 1 THEN NoTime ELSE "09:00",
                     !.title = IF r = 1 THEN "interval" ELSE "weekly",
                     !.created_at_ts = StartTs - 60, !.last_sent_at_ts = 0]],
     gen |-> <<>>,
     timers |-> {},
     now |-> StartTs]

\* _startup_sync_and_schedule: reschedule_chat_jobs for every known chat
Started == reschedule_chat_jobs(BootState, 1)

Pending(S, r) == {t \in S.timers : t.rule_id = r /\ ~t.removed}

\* the timer of rule r that runs next in a chain of failures: its retry timer if
\* it has one, else its rule timer
ChainTimer(S, r) ==
    IF \E t \in Pending(S, r) : t.name = "rule_retry"
    THEN CHOOSE t \in Pending(S, r) : t.name = "rule_retry"
    ELSE CHOOSE t \in Pending(S, r) : t.name = "rule"

FailedRun(S, r) ==
    LET t == ChainTimer(S, r)
    IN  on_failure(before_send(S, t).S, Execution(S, t))

\* one more round: when the chain timers of both rules are due they run and their sends fail
FailedRound(S) ==
    LET t1 == ChainTimer(S, 1)
        t2 == ChainTimer(S, 2)
        due == IF t1.run_at >= t2.run_at THEN t1.run_at ELSE t2.run_at
    IN  FailedRun(FailedRun([S EXCEPT !.now = due], 1), 2)

RECURSIVE FailedRounds(_, _)
FailedRounds(S, n) == IF n = 0 THEN S ELSE FailedRounds(FailedRound(S), n - 1)

\* The initial states: the program after its startup sweep and n rounds of failed
\* deliveries, n in 0..MAX_SEND_RETRY_ATTEMPTS (each computed by the operators above)
SchedInit ==
    /\ \E n \in 0..MAX_SEND_RETRY_ATTEMPTS :
          LET S == FailedRounds(Started, n)
          IN  /\ chats = S.chats
              /\ rules = S.rules
              /\ gen = S.gen
              /\ timers = S.timers
              /\ now = S.now
    /\ inflight = {}
    /\ pending = {}
    /\ budget = [admin |-> MaxAdmin, fire |-> MaxFire]
    /\ last = AdminEv("init", 0, 0)
    /\ rule_seq = Cardinality(RuleIds)

\* no function has been called, no send is running
CallIdle == pcall = [fn |-> "none"] /\ pret = 0

SenderIdle == sender = [pc |-> "idle"]

\* a stored flow value that is not there (user_data.get(...) is not a dict)
\* the other keys are those of a draft (stage, kind, days, time_hhmm, interval_minutes,
\* title, message_text, image_file_id, rule_id) and of an awaited photo (mode,
\* rule_id); days_list tells that days is a sorted list and no longer a set
NoValue == [present |-> FALSE, chat_id |-> 0, actor_user_id |-> 0, expires_at_ts |-> 0,
            stage |-> "", kind |-> "", days |-> {}, time_hhmm |-> "", interval_minutes |-> 0,
            title |-> "", message_text |-> "", rule_id |-> 0, mode |-> "",
            image_file_id |-> "", days_list |-> FALSE]

FlowIdle == user_data = [draft_rule |-> NoValue, awaiting_photo |-> NoValue]

\* bot_data holds no key yet and no task is under way
BotIdle == bot_data = <<>> /\ tasks = <<>>

UseAdmin == budget.admin > 0 /\ budget' = [budget EXCEPT !.admin = @ - 1]
UseFire == budget.fire > 0 /\ budget' = [budget EXCEPT !.fire = @ - 1]

\* time passes until some armed timer is due (while a firing is within the bound)
Tick ==
    /\ budget.fire > 0
    /\ \E t \in timers : t.run_at > now /\ now' = t.run_at
    /\ last' = AdminEv("tick", 0, 0)
    /\ UNCHANGED <<chats, rules, gen, timers, inflight, pending, budget>>
    /\ UNCHANGED callVars

\* reschedule_chat_jobs as run by /start and on_my_chat_member
RescheduleChatJobs(c) ==
    /\ UseAdmin
    /\ Commit(reschedule_chat_jobs(Cur, c))
    /\ last' = AdminEv("reschedule_chat_jobs", c, 0)
    /\ UNCHANGED <<inflight, pending>>
    /\ UNCHANGED callVars

\* on_callback "toggle_chat", up to its `await edit_text`
ToggleChat(c) ==
    /\ c \notin pending
    /\ UseAdmin
    /\ chats' = set_chat_enabled(chats, c, ~upsert_chat(chats, c)[c].enabled)
    /\ pending' = pending \cup {c}
    /\ last' = AdminEv("toggle_chat", c, 0)
    /\ UNCHANGED <<rules, gen, timers, inflight, now>>
    /\ UNCHANGED callVars

\* on_callback "toggle_chat", from its `await reschedule_chat_jobs`
ToggleChatReschedule(c) ==
    /\ c \in pending
    /\ Commit(reschedule_chat_jobs(Cur, c))
    /\ pending' = pending \ {c}
    /\ last' = AdminEv("reschedule_chat_jobs", c, 0)
    /\ UNCHANGED <<inflight, budget>>
    /\ UNCHANGED callVars

\* on_callback "rule_toggle": toggle_rule_enabled, then reschedule_rule_job
ToggleRule(c, r) ==
    /\ UseAdmin
    /\ Commit(reschedule_rule_job(
                [Cur EXCEPT !.chats = upsert_chat(chats, c),
                            !.rules = toggle_rule_enabled(rules, c, r)], c, r))
    /\ last' = AdminEv("reschedule_rule_job", c, r)
    /\ UNCHANGED <<inflight, pending>>
    /\ UNCHANGED callVars

\* on_callback "rule_del": delete_rule, then reschedule_rule_job
DeleteRule(c, r) ==
    /\ UseAdmin
    /\ Commit(reschedule_rule_job(
                [Cur EXCEPT !.chats = upsert_chat(chats, c),
                            !.rules = delete_rule(rules, c, r)], c, r))
    /\ last' = AdminEv("reschedule_rule_job", c, r)
    /\ UNCHANGED <<inflight, pending>>
    /\ UNCHANGED callVars

\* on_migrate: the service message that a group became a supergroup
OnMigrate(old_id, new_id) ==
    /\ new_id # 0
    /\ UseAdmin
    /\ Commit(reschedule_chat_jobs(migrate_chat_id(Cur, old_id, new_id), new_id))
    /\ last' = AdminEv("on_migrate", old_id, 0)
    /\ UNCHANGED <<inflight, pending>>
    /\ UNCHANGED callVars

\* a due timer runs send_notification_job, up to its send
JobStart(t) ==
    /\ now >= t.run_at
    /\ UseFire
    /\ LET b == before_send(Cur, t)
           f == Execution(Cur, t)
       IN  /\ Commit(b.S)
           /\ last' = JobEv(b.op, f)
           /\ IF b.op = "send"
              THEN inflight' = inflight \cup {f}
              ELSE inflight' = inflight
    /\ UNCHANGED pending
    /\ UNCHANGED callVars

SendOk(f) ==
    /\ Commit(on_success(Cur, f))
    /\ inflight' = inflight \ {f}
    /\ last' = JobEv("ok", f)
    /\ UNCHANGED <<pending, budget>>
    /\ UNCHANGED callVars

SendError(f) ==
    /\ Commit(on_failure(Cur, f))
    /\ inflight' = inflight \ {f}
    /\ last' = JobEv("error", f)
    /\ UNCHANGED <<pending, budget>>
    /\ UNCHANGED callVars

SendChatMigrated(f) ==
    /\ NewChatId(f.chat_id) # 0
    /\ Commit(on_chat_migrated(Cur, f, NewChatId(f.chat_id)))
    /\ inflight' = inflight \ {f}
    /\ last' = JobEv("migrated", f)
    /\ UNCHANGED <<pending, budget>>
    /\ UNCHANGED callVars

\* ChatMigrated without new_chat_id: logged, nothing else
SendChatMigratedNoId(f) ==
    /\ inflight' = inflight \ {f}
    /\ last' = JobEv("migrated_no_id", f)
    /\ UNCHANGED <<chats, rules, gen, timers, now, pending, budget>>
    /\ UNCHANGED callVars

\* the chats whose menu can be used: the chats that have a row
KnownChats == {c \in ChatIds : chats[c].exists}

Init == SchedInit /\ CallIdle /\ SenderIdle /\ FlowIdle /\ BotIdle

Next ==
    \/ Tick
    \/ \E c \in KnownChats : RescheduleChatJobs(c)
    \/ \E c \in KnownChats : ToggleChat(c)
    \/ \E c \in ChatIds : ToggleChatReschedule(c)
    \/ \E c \in KnownChats, r \in RuleIds : ToggleRule(c, r)
    \/ \E c \in KnownChats, r \in RuleIds : DeleteRule(c, r)
    \/ \E c \in KnownChats : OnMigrate(c, NewChatId(c))
    \/ \E t \in timers : JobStart(t)
    \/ \E f \in inflight : SendOk(f)
    \/ \E f \in inflight : SendError(f)
    \/ \E f \in inflight : SendChatMigrated(f)
    \/ \E f \in inflight : SendChatMigratedNoId(f)

Spec == Init /\ [][Next]_vars

\* handler runs in a behaviour that follows single-rule edits
MaxToggles == 2

\* the program after its startup sweep, with MaxToggles handler runs ahead
RuleJobInit ==
    /\ chats = Started.chats
    /\ rules = Started.rules
    /\ gen = Started.gen
    /\ timers = Started.timers
    /\ now = Started.now
    /\ inflight = {}
    /\ pending = {}
    /\ budget = [admin |-> MaxToggles, fire |-> MaxFire]
    /\ last = AdminEv("init", 0, 0)
    /\ rule_seq = Cardinality(RuleIds)
    /\ CallIdle /\ SenderIdle /\ FlowIdle /\ BotIdle

RuleJobSpec == RuleJobInit /\ [][Next]_vars

-----------------------------------------------------------------------------
(* Properties of the scheduler *)

\* the steps in which a timer starts send_notification_job
StartOps == {"chat_disabled", "rule_gone", "rule_disabled", "stale", "send"}

\* the stored generation of a key, 0 when it has none
Stored(store, chat_id, rule_id, job_kind) ==
    IF HasGeneration(store, chat_id, rule_id, job_kind)
    THEN store[GenKey(chat_id, rule_id, job_kind)] ELSE 0

\* the timers named `name` of a rule whose removal was not requested
Live(T, name, rule_id) == {t \in T : t.name = name /\ t.rule_id = rule_id /\ ~t.removed}

\* a successful send of an interval rule: what the step leaves
C3_SuccessStep ==
    (last'.op = "ok" /\ last'.rule.kind = "interval") =>
        LET c == last'.chat_id
            r == last'.rule_id
            fresh == {t \in timers' : t \notin timers /\ ~t.removed}
            anchored == [last'.rule EXCEPT !.last_sent_at_ts = now]
        IN  /\ rules'[r].exists => rules'[r].last_sent_at_ts = now
            /\ Stored(gen', c, r, JOB_KIND_RULE) = Stored(gen, c, r, JOB_KIND_RULE) + 1
            /\ \E t \in fresh :
                  /\ fresh = {t}
                  /\ t.name = "rule" /\ t.rule_id = r /\ ~t.removed
                  /\ t.retry_attempt = 0
                  /\ t.gen = Stored(gen', c, r, JOB_KIND_RULE)
                  /\ t.run_at = _compute_next_interval_run_dt(anchored, now)
            /\ \A t \in timers' \ fresh :
                  (t.name = "rule" /\ t.rule_id = r) =>
                      /\ t.removed
                      /\ t.gen # Stored(gen', t.chat_id, r, JOB_KIND_RULE)

\* C3: when a firing of an interval rule delivers successfully, the rule's
\* last_sent_at_ts is set to the current time and exactly one new rule timer is
\* armed for it, with retry_attempt = 0 and a freshly bumped generation, at the
\* next period boundary computed from the new anchor; every earlier rule timer
\* of that rule has its removal requested and no longer carries the current
\* generation.
C3_IntervalSuccess == [][C3_SuccessStep]_vars

\* a failed send of an interval rule: what the step leaves
C4_FailureStep ==
    (last'.op = "error" /\ last'.rule.kind = "interval") =>
        LET c == last'.chat_id
            r == last'.rule_id
            n == last'.retry_attempt
            live == Live(timers', "rule", r)
        IN  /\ Stored(gen', c, r, JOB_KIND_RULE) = Stored(gen, c, r, JOB_KIND_RULE) + 1
            /\ \E t \in live :
                  /\ live = {t}
                  /\ t \notin timers
                  /\ t.chat_id = c
                  /\ t.gen = Stored(gen', c, r, JOB_KIND_RULE)
                  /\ IF n + 1 <= 3
                     THEN t.retry_attempt = n + 1 /\ t.run_at = now + compute_retry_delay_s(n + 1)
                     ELSE t.retry_attempt = 0
                          /\ t.run_at = _compute_next_interval_run_dt(last'.rule, now)
            /\ rules' = rules

\* every armed timer carries retry_attempt in 0..3, and a rule_retry timer is
\* never a timer of an interval rule
C4_Timers ==
    \A t \in timers :
        /\ t.retry_attempt \in 0..3
        /\ (t.name = "rule_retry" /\ rules[t.rule_id].exists) => rules[t.rule_id].kind # "interval"

\* C4: when a firing of an interval rule carrying retry_attempt = n fails with
\* a delivery error other than chat-migrated, the rule's single rule timer is
\* re-armed under a bumped generation, as a retry n + 1 at now + retry_delay(n + 1)
\* if n + 1 <= 3, otherwise on the anchor-based schedule with retry_attempt = 0.
\* Every armed timer carries retry_attempt in 0..3, a failed firing leaves
\* last_sent_at_ts unchanged, and no rule_retry timer is armed for an interval rule.
C4_IntervalFailure == [][C4_FailureStep]_vars /\ [](C4_Timers)

\* the retries of an interval rule are used up and it falls back to its schedule
C4_Witness ==
    /\ last.op = "error"
    /\ last.rule.kind = "interval"
    /\ last.retry_attempt = 3
    /\ \E t \in Live(timers, "rule", last.rule_id) : t.retry_attempt = 0

\* a failed send of a weekly rule: what the step leaves
C5_FailureStep ==
    (last'.op = "error" /\ last'.rule.kind = "weekly") =>
        LET c == last'.chat_id
            r == last'.rule_id
            n == last'.retry_attempt
            live == Live(timers', "rule_retry", r)
            RuleTimers(T) == {t \in T : t.name = "rule" /\ t.rule_id = r}
        IN  /\ IF n + 1 <= 3
               THEN /\ Stored(gen', c, r, JOB_KIND_RETRY) = Stored(gen, c, r, JOB_KIND_RETRY) + 1
                    /\ \E t \in live :
                          /\ live = {t}
                          /\ t \notin timers
                          /\ t.retry_attempt = n + 1
                          /\ t.gen = Stored(gen', c, r, JOB_KIND_RETRY)
               ELSE timers' = timers /\ gen' = gen
            /\ RuleTimers(timers') = RuleTimers(timers)
            /\ HasGeneration(gen', c, r, JOB_KIND_RULE) = HasGeneration(gen, c, r, JOB_KIND_RULE)
            /\ Stored(gen', c, r, JOB_KIND_RULE) = Stored(gen, c, r, JOB_KIND_RULE)

\* the attempts of one weekly occurrence: the recurring timer fires with
\* retry_attempt 0, its retry timers with 1..3
C5_Attempts ==
    \A t \in timers :
        /\ t.recurring => (t.name = "rule" /\ t.retry_attempt = 0)
        /\ t.name = "rule_retry" => t.retry_attempt \in 1..3

\* C5: when a firing of a weekly rule (regular or retry) carrying retry_attempt
\* = n fails with a delivery error other than chat-migrated, exactly one
\* rule_retry timer with retry_attempt = n + 1 and a bumped rule_retry
\* generation is pending afterwards if n + 1 <= 3, replacing any earlier retry
\* timer, and none is armed if n + 1 > 3; in both cases the recurring rule timer
\* and the rule-kind generation are unchanged, so a weekly occurrence is
\* attempted at most 1 + 3 times.
C5_WeeklyFailure == [][C5_FailureStep]_vars /\ [](C5_Attempts)

\* a weekly retry failed and the next retry is pending
C5_Witness ==
    /\ last.op = "error"
    /\ last.rule.kind = "weekly"
    /\ last.job_kind = JOB_KIND_RETRY
    /\ last.retry_attempt = 2
    /\ \E t \in Live(timers, "rule_retry", last.rule_id) : t.retry_attempt = 3

\* a firing that finds the chat disabled, the rule gone or the rule disabled
C6_AbortStep ==
    LET c == last'.chat_id
        rule == get_rule(rules, c, last'.rule_id)
    IN  (/\ last'.op \in StartOps
         /\ (~upsert_chat(chats, c)[c].enabled \/ ~rule.exists \/ ~rule.enabled)) =>
            /\ inflight' = inflight
            /\ gen' = gen
            /\ rules' = rules
            /\ Cardinality(timers') <= Cardinality(timers)
            /\ \A t2 \in timers' :
                  \E t \in timers :
                      t2 = t \/ (t.recurring /\ t2 = [t EXCEPT !.run_at = NextOccurrence(now)])

\* C6: a job firing that finds, when it reloads storage, that the chat is
\* disabled, or that the rule no longer exists in that chat, or that the rule
\* is disabled, sends nothing, arms no timer (neither a next run nor a retry),
\* bumps no generation and changes no rule field.
C6_AbortLeavesNoTrace == [][C6_AbortStep]_vars

\* a timer fired after its rule was disabled
C6_Witness == last.op = "rule_disabled" /\ ~rules[last.rule_id].enabled

\* the chat a step rescheduled as a whole, 0 when it did not
RescheduledChat ==
    IF last.op = "reschedule_chat_jobs" THEN last.chat_id
    ELSE IF last.op = "on_migrate" THEN NewChatId(last.chat_id)
    ELSE 0

\* C7: after reschedule_chat_jobs(chat) completes: if the chat is disabled,
\* every timer of every rule currently in the chat has had its removal
\* requested and none was armed; if the chat is enabled, the rules of the chat
\* that have a timer whose removal was not requested are exactly its enabled
\* rules, each with exactly one rule timer carrying the current generation and
\* no rule_retry timer.
C7_RescheduleChatJobs ==
    RescheduledChat # 0 =>
        LET c == RescheduledChat
            live(r) == {t \in timers : t.rule_id = r /\ ~t.removed}
        IN  \A r \in get_rules(rules, c) :
                IF chats[c].enabled /\ rules[r].enabled
                THEN \E t \in live(r) :
                        /\ live(r) = {t}
                        /\ t.name = "rule"
                        /\ t.chat_id = c
                        /\ HasGeneration(gen, c, r, JOB_KIND_RULE)
                        /\ t.gen = gen[GenKey(c, r, JOB_KIND_RULE)]
                ELSE live(r) = {}

\* a disabled chat was rescheduled while one of its timers was already due
C7_Witness ==
    /\ last.op = "reschedule_chat_jobs"
    /\ ~chats[last.chat_id].enabled
    /\ \E t \in timers : t.removed /\ rules[t.rule_id].chat_id = last.chat_id

\* C8: after reschedule_chat_jobs or reschedule_rule_job has run for a rule, a
\* timer armed for that rule before the reschedule, of either kind, that fires
\* afterwards is detected as stale or otherwise dropped: it never sends.
C8_SupersededNeverSends == ~(last.op = "send" /\ last.superseded)

-----------------------------------------------------------------------------
(* The functions of the scheduler, called on their own *)

\* the scheduler at rest: storage as an earlier run left it, nothing armed
SchedIdle ==
    /\ chats = BootState.chats
    /\ rules = BootState.rules
    /\ timers = {}
    /\ inflight = {}
    /\ pending = {}
    /\ now = StartTs
    /\ budget = [admin |-> 0, fire |-> 0]
    /\ last = AdminEv("init", 0, 0)
    /\ rule_seq = Cardinality(RuleIds)

schedRest == <<chats, rules, timers, inflight, pending, now, budget, last, rule_seq, bot_data,
              tasks>>

\* the bumps made so far in a generation store
RECURSIVE Bumps(_, _)
Bumps(store, keys) ==
    IF keys = {} THEN 0
    ELSE LET k == CHOOSE x \in keys : TRUE
         IN  store[k] + Bumps(store, keys \ {k})

\* the bumps of one run of the generation store
MaxBumps == 3

\* a call of _bump_rule_generation
CallBump(chat_id, rule_id, job_kind) ==
    /\ Bumps(gen, DOMAIN gen) < MaxBumps
    /\ gen' = _bump_rule_generation(gen, chat_id, rule_id, job_kind)
    /\ pcall' = [fn |-> "_bump_rule_generation", key |-> GenKey(chat_id, rule_id, job_kind)]
    /\ pret' = gen'[GenKey(chat_id, rule_id, job_kind)]
    /\ UNCHANGED <<schedRest, sender, user_data>>

\* a call of _job_is_stale for a job that carries job_generation
CallJobIsStale(chat_id, rule_id, job_kind, job_generation) ==
    /\ pcall' = [fn |-> "_job_is_stale", key |-> GenKey(chat_id, rule_id, job_kind),
                 job_generation |-> job_generation]
    /\ pret' = _job_is_stale(gen, chat_id, rule_id, job_kind, job_generation)
    /\ UNCHANGED <<gen, schedRest, sender, user_data>>

GenInit == SchedIdle /\ gen = <<>> /\ CallIdle /\ SenderIdle /\ FlowIdle /\ BotIdle

GenNext ==
    \/ \E c \in ChatIds, r \in RuleIds, k \in JobKinds : CallBump(c, r, k)
    \/ \E c \in ChatIds, r \in RuleIds, k \in JobKinds, g \in 0..(MaxBumps + 1) :
          CallJobIsStale(c, r, k, g)

GenSpec == GenInit /\ [][GenNext]_vars

\* interval_minutes of the rules tried: -1..MaxMinutes
MaxMinutes == 2
\* the timestamps tried are the multiples of TsStep up to MaxTs * TsStep
TsStep == 30
MaxTs == 6
\* the attempts tried: -MaxAttempt..MaxAttempt
MaxAttempt == 5

\* a stored timestamp: 0 (NULL, never set) or an instant
StoredTs == {TsStep * i : i \in 0..MaxTs}
\* int(time.time())
ClockTs == {TsStep * i : i \in 1..MaxTs}
Attempts == (0 - MaxAttempt)..MaxAttempt

\* a call of _compute_next_interval_run_dt(rule) at clock value now_ts
CallComputeNextIntervalRun(interval_minutes, last_sent_at_ts, created_at_ts, now_ts) ==
    /\ pcall' = [fn |-> "_compute_next_interval_run_dt", interval_minutes |-> interval_minutes,
                 last_sent_at_ts |-> last_sent_at_ts, created_at_ts |-> created_at_ts,
                 now_ts |-> now_ts]
    /\ pret' = _compute_next_interval_run_dt(
                   [NoRule EXCEPT !.interval_minutes = interval_minutes,
                                  !.last_sent_at_ts = last_sent_at_ts,
                                  !.created_at_ts = created_at_ts], now_ts)
    /\ UNCHANGED <<gen, schedRest, sender, user_data>>

\* a call of compute_retry_delay_s(attempt)
CallComputeRetryDelay(attempt) ==
    /\ pcall' = [fn |-> "compute_retry_delay_s", attempt |-> attempt]
    /\ pret' = compute_retry_delay_s(attempt)
    /\ UNCHANGED <<gen, schedRest, sender, user_data>>

\* _schedule_rule_job for the stored weekly rule with these days, on the state after
\* boot: the timers it arms for the rule and the weekdays they carry
CallScheduleRuleJob(days) ==
    LET rule == [BootState.rules[2] EXCEPT !.days = days]
        S == _schedule_rule_job([BootState EXCEPT !.rules[2] = rule], rule.chat_id, rule)
        armed == {t \in S.timers : t.rule_id = rule.id}
    IN  /\ pcall' = [fn |-> "_schedule_rule_job", days |-> days]
        /\ pret' = [timers |-> Cardinality(armed), recurring |-> \A t \in armed : t.recurring,
                    days |-> UNION {t.days : t \in armed}]
        /\ UNCHANGED <<gen, schedRest, sender, user_data>>

PureInit == SchedIdle /\ gen = <<>> /\ CallIdle /\ SenderIdle /\ FlowIdle /\ BotIdle

PureNext ==
    \/ \E m \in (0 - 1)..MaxMinutes, ls \in StoredTs, cr \in StoredTs, n \in ClockTs :
          CallComputeNextIntervalRun(m, ls, cr, n)
    \/ \E a \in Attempts : CallComputeRetryDelay(a)
    \/ \E days \in (SUBSET Weekdays) \ {{}} : CallScheduleRuleJob(days)

PureSpec == PureInit /\ [][PureNext]_vars

-----------------------------------------------------------------------------
(* TelegramSender._call_with_retries *)

\* SendOptions.retry_attempts of the runs tried: 0..MaxRetryAttempts
MaxRetryAttempts == 7
\* the retry_after a RetryAfter error carries
RetryAfterS == 2

\* what a platform call can raise (telegram.error); Forbidden stands for the
\* errors that neither except clause catches
TelegramErrors == {"RetryAfter", "TimedOut", "NetworkError", "BadRequest", "Forbidden"}

\* isinstance(e, NetworkError): TimedOut and BadRequest are subclasses of NetworkError
IsNetworkError(e) == e \in {"NetworkError", "TimedOut", "BadRequest"}

Min(a, b) == IF a <= b THEN a ELSE b

\* the run at its first iteration; an empty range(1, retry_attempts + 1) falls
\* through to `if last_exc`, which returns
SenderStart(retry_attempts) ==
    [pc |-> IF retry_attempts >= 1 THEN "call" ELSE "done",
     retry_attempts |-> retry_attempts, attempt |-> 1, delay |-> 1, last_exc |-> "none",
     calls |-> <<>>, sleeps |-> <<>>, raised |-> "none"]

\* after the loop: `if last_exc: raise last_exc`
AfterLoop(s) == [s EXCEPT !.pc = "done", !.raised = s.last_exc]

\* the next iteration of the for loop, or the code after it
NextAttempt(s) ==
    IF s.attempt < s.retry_attempts THEN [s EXCEPT !.attempt = @ + 1] ELSE AfterLoop(s)

\* `await coro_factory()` returned: `return`
OnReturn(s) == [s EXCEPT !.calls = Append(@, "ok"), !.pc = "done"]

\* `except RetryAfter`
OnRetryAfter(s) ==
    NextAttempt([s EXCEPT !.calls = Append(@, "RetryAfter"), !.last_exc = "RetryAfter",
                          !.sleeps = Append(@, [after |-> "RetryAfter", s |-> RetryAfterS + 1])])

\* `except (TimedOut, NetworkError)`
OnNetworkError(s, e) ==
    LET s1 == [s EXCEPT !.calls = Append(@, e), !.last_exc = e]
    IN  IF s.attempt >= s.retry_attempts THEN AfterLoop(s1)
        ELSE NextAttempt([s1 EXCEPT !.sleeps = Append(@, [after |-> e, s |-> s.delay]),
                                    !.delay = Min(s.delay * 2, 15)])

\* an exception no clause catches leaves the function
OnUncaught(s, e) == [s EXCEPT !.calls = Append(@, e), !.pc = "done", !.raised = e]

CallReturns ==
    /\ sender.pc = "call"
    /\ sender' = OnReturn(sender)
    /\ UNCHANGED <<gen, schedRest, pcall, pret, user_data>>

CallRaises(e) ==
    /\ sender.pc = "call"
    /\ sender' = IF e = "RetryAfter" THEN OnRetryAfter(sender)
                 ELSE IF IsNetworkError(e) THEN OnNetworkError(sender, e)
                 ELSE OnUncaught(sender, e)
    /\ UNCHANGED <<gen, schedRest, pcall, pret, user_data>>

SenderInit ==
    /\ SchedIdle /\ gen = <<>> /\ CallIdle /\ FlowIdle /\ BotIdle
    /\ \E n \in 0..MaxRetryAttempts : sender = SenderStart(n)

SenderNext ==
    \/ CallReturns
    \/ \E e \in TelegramErrors : CallRaises(e)

SenderSpec == SenderInit /\ [][SenderNext]_vars

-----------------------------------------------------------------------------
(* Properties of the functions *)

\* a bump: the key's generation is its old value (0 when absent) plus 1, that
\* value is returned, and no key of the store loses its generation or goes down
C1_BumpStep ==
    gen' # gen =>
        LET key == pcall'.key
            old == IF key \in DOMAIN gen THEN gen[key] ELSE 0
        IN  /\ pcall'.fn = "_bump_rule_generation"
            /\ key \in DOMAIN gen'
            /\ gen'[key] = old + 1
            /\ pret' = gen'[key]
            /\ \A k \in DOMAIN gen : k \in DOMAIN gen' /\ gen'[k] >= gen[k]

\* the verdict of _job_is_stale: stale iff the key is stored and differs
C1_StaleIff ==
    pcall.fn = "_job_is_stale" =>
        /\ pret = (pcall.key \in DOMAIN gen /\ gen[pcall.key] # pcall.job_generation)
        /\ (pcall.key \notin DOMAIN gen => pret = FALSE)

\* C1: generation gating. Each bump adds exactly 1 to the stored generation of
\* its key and returns the new value, so a stored generation never decreases; a
\* job carrying generation g is stale if and only if its key has a stored
\* generation that differs from g; for a key never bumped no job is stale.
C1_GenerationGating == [][C1_BumpStep]_vars /\ [](C1_StaleIff)

\* a job is found stale after a bump, and with the same generation a job of a
\* key never bumped is not
C1_Witness ==
    /\ pcall.fn = "_job_is_stale"
    /\ pret = TRUE
    /\ pcall.job_generation = 1
    /\ gen[pcall.key] = 2
    /\ \E c \in ChatIds, r \in RuleIds, j \in JobKinds : ~HasGeneration(gen, c, r, j)

\* the largest k tried for a period boundary anchor + k * period
MaxK == ((MaxTs * TsStep) \div 60) + 2

\* C2: the next run of an interval rule. With period = interval_minutes * 60 > 0
\* and anchor = last_sent_at_ts if set, else created_at_ts if non-zero, else now:
\* when anchor <= now the result is anchor + k * period for the unique k >= 1 that
\* makes it strictly greater than now and at most now + period; when anchor > now
\* it is exactly anchor + period; when interval_minutes <= 0 it is now + 60.
C2_NextIntervalRun ==
    pcall.fn = "_compute_next_interval_run_dt" =>
        LET period == pcall.interval_minutes * 60
            now_ts == pcall.now_ts
            anchor == IF pcall.last_sent_at_ts # 0 THEN pcall.last_sent_at_ts
                      ELSE IF pcall.created_at_ts # 0 THEN pcall.created_at_ts
                      ELSE now_ts
            Fits(k) == anchor + k * period > now_ts /\ anchor + k * period <= now_ts + period
        IN  IF pcall.interval_minutes <= 0 THEN pret = now_ts + 60
            ELSE IF anchor > now_ts THEN pret = anchor + period
            ELSE \E k \in 1..MaxK :
                    /\ pret = anchor + k * period
                    /\ Fits(k)
                    /\ \A j \in 1..MaxK : Fits(j) => j = k

\* a rule sent before, whose anchor is at least a whole period behind the clock
C2_Witness ==
    /\ pcall.fn = "_compute_next_interval_run_dt"
    /\ pcall.interval_minutes = 1
    /\ pcall.last_sent_at_ts # 0
    /\ pcall.now_ts - pcall.last_sent_at_ts >= 60
    /\ pret = pcall.last_sent_at_ts + 120

\* C9: the retry delay table. retry_delay(attempt) is 60 when attempt <= 1, 120
\* when attempt = 2 and 300 when attempt >= 3; it is monotone non-decreasing in
\* attempt and never exceeds 300.
C9_RetryDelayTable ==
    pcall.fn = "compute_retry_delay_s" =>
        LET a == pcall.attempt
        IN  /\ (a <= 1 => pret = 60)
            /\ (a = 2 => pret = 120)
            /\ (a >= 3 => pret = 300)
            /\ pret <= 300
            /\ \A b \in Attempts : b <= a => compute_retry_delay_s(b) <= pret

\* an attempt beyond the table's last step gets the ceiling
C9_Witness ==
    /\ pcall.fn = "compute_retry_delay_s"
    /\ pcall.attempt = 4
    /\ pret = 300

-----------------------------------------------------------------------------
(* Properties of the sender *)

\* the errors the policy retries: rate limit, timeout, network
PolicyRetryable == {"RetryAfter", "TimedOut", "NetworkError"}

\* the i-th network backoff: 1, 2, 4, 8, 15, 15, ...
RECURSIVE Backoff(_)
Backoff(i) == IF i <= 1 THEN 1 ELSE Min(2 * Backoff(i - 1), 15)

\* the sleeps taken after timeout and network errors
NetworkSleeps(sl) == SelectSeq(sl, LAMBDA x : x.after \in {"TimedOut", "NetworkError"})

\* C10: the sender's retry policy with retry_attempts = N >= 1. One send makes at
\* most N platform calls and stops at the first success; a rate-limit, timeout or
\* network error is retried while attempts remain, the network backoff being 1, 2,
\* 4, 8, 15, 15, ... seconds; an error of any other kind, a malformed request
\* included, reaches the caller on its first occurrence without a further call;
\* when all N calls fail with retryable errors the error of the last call is raised.
C10_SenderRetryPolicy ==
    (sender.pc # "idle" /\ sender.retry_attempts >= 1) =>
        LET N == sender.retry_attempts
            calls == sender.calls
            n == Len(calls)
            ended == sender.pc = "done"
        IN  /\ n <= N
            /\ \A i \in 1..n : calls[i] = "ok" => (i = n /\ ended /\ sender.raised = "none")
            /\ \A i \in 1..n : (calls[i] \in PolicyRetryable /\ i < N) => (i < n \/ ~ended)
            /\ \A i \in 1..Len(NetworkSleeps(sender.sleeps)) :
                  NetworkSleeps(sender.sleeps)[i].s = Backoff(i)
            /\ \A i \in 1..n : calls[i] \notin (PolicyRetryable \cup {"ok"}) =>
                  (i = n /\ ended /\ sender.raised = calls[i])
            /\ (n = N /\ ended /\ \A i \in 1..n : calls[i] \in PolicyRetryable) =>
                  sender.raised = calls[N]

-----------------------------------------------------------------------------
(* The wizard's per-user state (bot/handlers/state.py) *)

\* `actor_user_id is None`
None == 0 - 1

\* _now_ts() during the lookups
FlowNow == 1000

\* the chats and users of the flows tried
FlowChats == {1, 2}
FlowActors == {10, 11}

\* a stored value: a dict whose chat_id, actor_user_id and expires_at_ts are read
\* with `int(d.get(...) or 0)`, so a missing key and 0 are the same
FlowValues ==
    {[NoValue EXCEPT !.present = TRUE, !.chat_id = c, !.actor_user_id = a, !.expires_at_ts = e] :
        c \in FlowChats, a \in {0} \cup FlowActors,
        e \in {0, FlowNow - 1, FlowNow, FlowNow + 1}}

\* is_expired with the expiry instant itself counted as expired
is_expired_at(draft, now_ts) == draft.expires_at_ts > 0 /\ now_ts >= draft.expires_at_ts

is_expired(draft, now_ts) == draft.expires_at_ts > 0 /\ now_ts > draft.expires_at_ts

clear_flow(U) == [draft_rule |-> NoValue, awaiting_photo |-> NoValue]

clear_awaiting_photo(U) == [U EXCEPT !.awaiting_photo = NoValue]

\* get_draft dropping the flow when another actor asks
get_draft_clearing(U, chat_id, actor_user_id, now_ts) ==
    LET draft == U.draft_rule
    IN  IF ~draft.present THEN [U |-> U, ret |-> NoValue]
        ELSE IF draft.chat_id # chat_id THEN [U |-> clear_flow(U), ret |-> NoValue]
        ELSE IF is_expired(draft, now_ts) THEN [U |-> clear_flow(U), ret |-> NoValue]
        ELSE IF actor_user_id # None /\ draft.actor_user_id # 0
                /\ draft.actor_user_id # actor_user_id
             THEN [U |-> clear_flow(U), ret |-> NoValue]
        ELSE [U |-> U, ret |-> draft]

\* get_draft: the user_data it leaves (U) and what it returns (ret, NoValue for None)
get_draft(U, chat_id, actor_user_id, now_ts) ==
    LET draft == U.draft_rule
    IN  IF ~draft.present THEN [U |-> U, ret |-> NoValue]
        ELSE IF draft.chat_id # chat_id THEN [U |-> clear_flow(U), ret |-> NoValue]
        ELSE IF is_expired(draft, now_ts) THEN [U |-> clear_flow(U), ret |-> NoValue]
        ELSE IF actor_user_id # None /\ draft.actor_user_id # 0
                /\ draft.actor_user_id # actor_user_id
             THEN [U |-> U, ret |-> NoValue]
        ELSE [U |-> U, ret |-> draft]

\* get_awaiting_photo, likewise
get_awaiting_photo(U, chat_id, actor_user_id, now_ts) ==
    LET awaiting == U.awaiting_photo
    IN  IF ~awaiting.present THEN [U |-> U, ret |-> NoValue]
        ELSE IF awaiting.chat_id # chat_id
             THEN [U |-> clear_awaiting_photo(U), ret |-> NoValue]
        ELSE IF is_expired(awaiting, now_ts)
             THEN [U |-> clear_awaiting_photo(U), ret |-> NoValue]
        ELSE IF actor_user_id # None /\ awaiting.actor_user_id # 0
                /\ awaiting.actor_user_id # actor_user_id
             THEN [U |-> U, ret |-> NoValue]
        ELSE [U |-> U, ret |-> awaiting]

set_draft(U, draft) == [U EXCEPT !.draft_rule = draft]

set_awaiting_photo(U, awaiting) == [U EXCEPT !.awaiting_photo = awaiting]

\* what the flow's steps leave alone
flowRest == <<gen, schedRest, sender>>

\* a lookup: pcall keeps the call and the user_data it found, pret what it returned
CallGetDraft(chat_id, actor_user_id) ==
    /\ pcall' = [fn |-> "get_draft", chat_id |-> chat_id, actor_user_id |-> actor_user_id,
                 before |-> user_data]
    /\ user_data' = get_draft(user_data, chat_id, actor_user_id, FlowNow).U
    /\ pret' = get_draft(user_data, chat_id, actor_user_id, FlowNow).ret
    /\ UNCHANGED flowRest

CallGetAwaitingPhoto(chat_id, actor_user_id) ==
    /\ pcall' = [fn |-> "get_awaiting_photo", chat_id |-> chat_id,
                 actor_user_id |-> actor_user_id, before |-> user_data]
    /\ user_data' = get_awaiting_photo(user_data, chat_id, actor_user_id, FlowNow).U
    /\ pret' = get_awaiting_photo(user_data, chat_id, actor_user_id, FlowNow).ret
    /\ UNCHANGED flowRest

CallSetDraft(draft) ==
    /\ user_data' = set_draft(user_data, draft)
    /\ pcall' = [fn |-> "set_draft"]
    /\ pret' = 0
    /\ UNCHANGED flowRest

CallSetAwaitingPhoto(awaiting) ==
    /\ user_data' = set_awaiting_photo(user_data, awaiting)
    /\ pcall' = [fn |-> "set_awaiting_photo"]
    /\ pret' = 0
    /\ UNCHANGED flowRest

CallClearFlow ==
    /\ user_data' = clear_flow(user_data)
    /\ pcall' = [fn |-> "clear_flow"]
    /\ pret' = 0
    /\ UNCHANGED flowRest

FlowInit == SchedIdle /\ gen = <<>> /\ CallIdle /\ SenderIdle /\ FlowIdle /\ BotIdle

FlowNext ==
    \/ \E c \in FlowChats, a \in {None} \cup FlowActors : CallGetDraft(c, a)
    \/ \E c \in FlowChats, a \in {None} \cup FlowActors : CallGetAwaitingPhoto(c, a)
    \/ \E v \in FlowValues : CallSetDraft(v)
    \/ \E v \in FlowValues : CallSetAwaitingPhoto(v)
    \/ CallClearFlow

FlowSpec == FlowInit /\ [][FlowNext]_vars

-----------------------------------------------------------------------------
(* The system catalog and its reconciliation (bot/system/sync.py, bot/db/repo.py).
   D is the storage [chats, rules, rule_seq, now]. *)

\* the ids the rules of the storage runs can take
MaxRuleId == 3
DbRuleIds == 1..MaxRuleId

\* the ids of a set, ascending (the order a SELECT without ORDER BY walks the table)
RECURSIVE Ascending(_)
Ascending(ids) ==
    IF ids = {} THEN <<>>
    ELSE LET m == CHOOSE i \in ids : \A j \in ids : i <= j
         IN  <<m>> \o Ascending(ids \ {m})

\* SELECT ... FROM rules WHERE chat_id = ? AND system_key = ?
SystemRows(R, chat_id, system_key) ==
    {r \in DOMAIN R : R[r].exists /\ R[r].chat_id = chat_id /\ R[r].system_key = system_key}

\* _get_system_rule_state(...)[0]
_get_system_rule_state(D, chat_id, system_key) == SystemRows(D.rules, chat_id, system_key) # {}

\* the row an ensure_system_rule_* inserts
InsertedSystemRule(D, chat_id, system_key, title, kind, enabled_by_default, sort_order, images) ==
    [NoRule EXCEPT !.id = D.rule_seq + 1, !.exists = TRUE, !.chat_id = chat_id,
                   !.title = title, !.kind = kind, !.created_at_ts = D.now,
                   !.is_system = TRUE, !.system_key = system_key,
                   !.enabled = enabled_by_default, !.sort_order = sort_order,
                   !.images = images]

Insert(D, chat_id, row) ==
    [D EXCEPT !.chats = upsert_chat(D.chats, chat_id),
              !.rules = [@ EXCEPT ![row.id] = row],
              !.rule_seq = row.id]

\* ensure_system_rule_weekly without its lookup of the row
ensure_system_rule_weekly_inserting(D, chat_id, system_key, title, days, time_hhmm, images, enabled_by_default, sort_order) ==
    Insert(D, chat_id,
           [InsertedSystemRule(D, chat_id, system_key, title, "weekly",
                               enabled_by_default, sort_order, images)
              EXCEPT !.days = days, !.time_hhmm = time_hhmm])

\* ensure_system_rule_weekly taking time_hhmm and enabled from the catalog always
ensure_system_rule_weekly_overwriting(D, chat_id, system_key, title, days, time_hhmm, images, enabled_by_default, sort_order) ==
    LET found == SystemRows(D.rules, chat_id, system_key)
    IN  IF found # {}
        THEN LET rule_id == CHOOSE r \in found : TRUE
             IN  [D EXCEPT !.chats = upsert_chat(D.chats, chat_id),
                           !.rules = [@ EXCEPT ![rule_id] =
                               [D.rules[rule_id] EXCEPT
                                  !.title = title, !.is_system = TRUE,
                                  !.sort_order = sort_order, !.days = days,
                                  !.time_hhmm = time_hhmm, !.enabled = enabled_by_default,
                                  !.images = images]]]
        ELSE Insert(D, chat_id,
                    [InsertedSystemRule(D, chat_id, system_key, title, "weekly",
                                        enabled_by_default, sort_order, images)
                       EXCEPT !.days = days, !.time_hhmm = time_hhmm])

\* ensure_system_rule_weekly with days as the set of its list
ensure_system_rule_weekly(D, chat_id, system_key, title, days, time_hhmm, images, enabled_by_default, sort_order) ==
    LET found == SystemRows(D.rules, chat_id, system_key)
    IN  IF found # {}
        THEN LET rule_id == CHOOSE r \in found : TRUE
                 row == D.rules[rule_id]
                 refreshed == [row EXCEPT !.title = title, !.is_system = TRUE,
                                          !.sort_order = sort_order, !.days = days]
                 scheduled == IF row.user_customized THEN refreshed
                              ELSE [refreshed EXCEPT !.time_hhmm = time_hhmm,
                                                     !.enabled = enabled_by_default]
             IN  [D EXCEPT !.chats = upsert_chat(D.chats, chat_id),
                           !.rules = [@ EXCEPT ![rule_id] = [scheduled EXCEPT !.images = images]]]
        ELSE Insert(D, chat_id,
                    [InsertedSystemRule(D, chat_id, system_key, title, "weekly",
                                        enabled_by_default, sort_order, images)
                       EXCEPT !.days = days, !.time_hhmm = time_hhmm])

ensure_system_rule_interval(D, chat_id, system_key, title, interval_minutes, images, enabled_by_default, sort_order) ==
    LET found == SystemRows(D.rules, chat_id, system_key)
    IN  IF found # {}
        THEN LET rule_id == CHOOSE r \in found : TRUE
                 row == D.rules[rule_id]
                 refreshed == [row EXCEPT !.title = title, !.is_system = TRUE,
                                          !.sort_order = sort_order]
                 scheduled == IF row.user_customized THEN refreshed
                              ELSE [refreshed EXCEPT !.interval_minutes = interval_minutes,
                                                     !.enabled = enabled_by_default]
             IN  [D EXCEPT !.chats = upsert_chat(D.chats, chat_id),
                           !.rules = [@ EXCEPT ![rule_id] = [scheduled EXCEPT !.images = images]]]
        ELSE Insert(D, chat_id,
                    [InsertedSystemRule(D, chat_id, system_key, title, "interval",
                                        enabled_by_default, sort_order, images)
                       EXCEPT !.interval_minutes = interval_minutes])

\* the title _cleanup_stale_system_rules reports: str(title or "").strip(), or its
\* default (the Russian for "notification", transliterated here) when that is empty
RemovedTitle(title) == IF title = "" THEN "Uvedomlenie" ELSE title

\* _cleanup_stale_system_rules without its DELETE of the stale rows
_cleanup_stale_system_rules_kept(D, chat_id, configured_keys) ==
    IF configured_keys = {} THEN [D |-> D, removed |-> <<>>]
    ELSE LET stale == {r \in DOMAIN D.rules :
                          /\ D.rules[r].exists /\ D.rules[r].chat_id = chat_id
                          /\ D.rules[r].is_system /\ D.rules[r].system_key # NoKey
                          /\ D.rules[r].system_key \notin configured_keys}
             rows == Ascending(stale)
         IN  [D |-> D,
              removed |-> [i \in 1..Len(rows) |-> RemovedTitle(D.rules[rows[i]].title)]]

\* _cleanup_stale_system_rules: the storage it leaves (D) and the titles it returns
_cleanup_stale_system_rules(D, chat_id, configured_keys) ==
    IF configured_keys = {} THEN [D |-> D, removed |-> <<>>]
    ELSE LET legacy == {r \in DOMAIN D.rules :
                          /\ D.rules[r].exists /\ D.rules[r].chat_id = chat_id
                          /\ D.rules[r].is_system /\ D.rules[r].system_key = NoKey}
             stale == {r \in DOMAIN D.rules \ legacy :
                          /\ D.rules[r].exists /\ D.rules[r].chat_id = chat_id
                          /\ D.rules[r].is_system /\ D.rules[r].system_key # NoKey
                          /\ D.rules[r].system_key \notin configured_keys}
             rows == Ascending(stale)
         IN  [D |-> [D EXCEPT !.rules = [r \in DOMAIN D.rules |->
                                           IF r \in legacy \cup stale THEN NoRule
                                           ELSE D.rules[r]]],
              removed |-> [i \in 1..Len(rows) |-> RemovedTitle(D.rules[rows[i]].title)]]

\* the loop of sync_system_rules_for_chat from its idx-th entry (idx counts from 0);
\* T is [D, added]
RECURSIVE EnsureFrom(_, _, _, _)
EnsureFrom(T, chat_id, rules_, idx) ==
    IF idx >= Len(rules_) THEN T
    ELSE LET r == rules_[idx + 1]
             existed == _get_system_rule_state(T.D, chat_id, r.system_key)
             D2 == IF r.kind = "weekly"
                   THEN ensure_system_rule_weekly(T.D, chat_id, r.system_key, r.title,
                            r.schedule.days, r.schedule.time_hhmm, r.images,
                            r.enabled_by_default, idx)
                   ELSE ensure_system_rule_interval(T.D, chat_id, r.system_key, r.title,
                            r.schedule.interval_minutes, r.images,
                            r.enabled_by_default, idx)
         IN  EnsureFrom([D |-> D2,
                         added |-> IF existed THEN T.added ELSE Append(T.added, r.title)],
                        chat_id, rules_, idx + 1)

\* sync_system_rules_for_chat: the storage it leaves and its SyncResult
sync_system_rules_for_chat(D, chat_id, rules_) ==
    LET configured_keys == {rules_[i].system_key : i \in 1..Len(rules_)} \ {""}
        cleaned == _cleanup_stale_system_rules(D, chat_id, configured_keys)
        ensured == EnsureFrom([D |-> cleaned.D, added |-> <<>>], chat_id, rules_, 0)
    IN  [D |-> ensured.D, added |-> ensured.added, removed |-> cleaned.removed]

set_rule_time_hhmm(R, chat_id, rule_id, time_hhmm) ==
    IF get_rule(R, chat_id, rule_id).exists /\ R[rule_id].kind = "weekly"
    THEN [R EXCEPT ![rule_id].time_hhmm = time_hhmm,
                   ![rule_id].user_customized = IF R[rule_id].is_system THEN TRUE ELSE @]
    ELSE R

set_rule_interval_minutes(R, chat_id, rule_id, interval_minutes) ==
    IF get_rule(R, chat_id, rule_id).exists /\ R[rule_id].kind = "interval"
    THEN [R EXCEPT ![rule_id].interval_minutes = interval_minutes,
                   ![rule_id].user_customized = IF R[rule_id].is_system THEN TRUE ELSE @]
    ELSE R

create_rule_interval(D, chat_id, title, interval_minutes, message_text, image_file_id) ==
    Insert(D, chat_id,
           [NoRule EXCEPT !.id = D.rule_seq + 1, !.exists = TRUE, !.chat_id = chat_id,
                          !.title = title, !.kind = "interval",
                          !.interval_minutes = interval_minutes,
                          !.message_text = message_text, !.image_file_id = image_file_id,
                          !.created_at_ts = D.now, !.enabled = TRUE])

create_rule_weekly(D, chat_id, title, days, time_hhmm, message_text, image_file_id) ==
    Insert(D, chat_id,
           [NoRule EXCEPT !.id = D.rule_seq + 1, !.exists = TRUE, !.chat_id = chat_id,
                          !.title = title, !.kind = "weekly",
                          !.days = days, !.time_hhmm = time_hhmm,
                          !.message_text = message_text, !.image_file_id = image_file_id,
                          !.created_at_ts = D.now, !.enabled = TRUE])

set_rule_text(R, chat_id, rule_id, message_text) ==
    IF get_rule(R, chat_id, rule_id).exists
    THEN [R EXCEPT ![rule_id].message_text = message_text]
    ELSE R

set_rule_title(R, chat_id, rule_id, title) ==
    IF get_rule(R, chat_id, rule_id).exists /\ ~R[rule_id].is_system
    THEN [R EXCEPT ![rule_id].title = title]
    ELSE R

\* file_id "" is None
set_rule_image_file_id(R, chat_id, rule_id, file_id) ==
    IF get_rule(R, chat_id, rule_id).exists
    THEN [R EXCEPT ![rule_id].image_file_id = file_id]
    ELSE R

set_chat_include_meta(C, chat_id, include_meta) ==
    [upsert_chat(C, chat_id) EXCEPT ![chat_id].include_meta = include_meta]

\* one SystemImage with one SystemImageText, as images_payload carries it
Image(ref) == <<[ref |-> ref, ref_type |-> "path", weight |-> 1,
                 texts |-> <<[text |-> ref, weight |-> 1]>>]>>

\* SystemRule entries as load_system_rules returns them (system_key and title not
\* blank, images not empty); schedule holds days and time_hhmm, or interval_minutes
WeeklyEntry(system_key, title, days, time_hhmm, enabled_by_default) ==
    [system_key |-> system_key, title |-> title, kind |-> "weekly",
     enabled_by_default |-> enabled_by_default,
     schedule |-> [days |-> days, time_hhmm |-> time_hhmm, interval_minutes |-> 0],
     images |-> Image(title)]

IntervalEntry(system_key, title, interval_minutes, enabled_by_default) ==
    [system_key |-> system_key, title |-> title, kind |-> "interval",
     enabled_by_default |-> enabled_by_default,
     schedule |-> [days |-> {}, time_hhmm |-> NoTime, interval_minutes |-> interval_minutes],
     images |-> Image(title)]

\* the entries the catalogs are made of: a weekly rule as two releases of the YAML
\* file have it, and an interval rule
SystemRules ==
    {WeeklyEntry("feed", "Feed", {0, 2}, "09:00", TRUE),
     WeeklyEntry("feed", "Feeding", {1}, "10:00", FALSE),
     IntervalEntry("water", "Water", 60, TRUE)}

Keys(rules_) == {rules_[i].system_key : i \in 1..Len(rules_)}

\* app.bot_data["system_rules"]: a list of at most MaxCatalog entries, one for a key
MaxCatalog == 2
Catalogs ==
    {k \in UNION {[1..n -> SystemRules] : n \in 0..MaxCatalog} :
        Cardinality(Keys(k)) = Len(k)}

\* what an administrator types when editing a rule
EditedTime == "12:30"
EditedMinutes == 45

\* handler runs of administrators that a storage run may still make
MaxEdits == 1

Db == [chats |-> chats, rules |-> rules, rule_seq |-> rule_seq, now |-> now]

DbCommit(D) ==
    /\ chats' = D.chats
    /\ rules' = D.rules
    /\ rule_seq' = D.rule_seq

\* what the storage's steps leave alone
dbRest == <<gen, timers, inflight, pending, now, last, sender, user_data, bot_data, tasks>>

\* a handler run that is not a reconciliation
DbEv(fn, chat_id, rule_id) ==
    /\ budget.admin > 0
    /\ budget' = [budget EXCEPT !.admin = @ - 1]
    /\ pcall' = [fn |-> fn, chat_id |-> chat_id, rule_id |-> rule_id]
    /\ pret' = 0

\* the system_keys of the rules of a chat that an administrator has customized
Customized(R, chat_id) ==
    {R[r].system_key : r \in {q \in DOMAIN R : /\ R[q].exists /\ R[q].chat_id = chat_id
                                                /\ R[q].user_customized}}

\* _sync_system, on_my_chat_member, _sync_one: reconciliation with the loaded catalog,
\* skipped when the catalog is empty.  pcall keeps the call, the keys of the
\* customized rules it deleted (dropped), those of the rules it created that the
\* reconciliation of the same chat right before it had dropped (recreated), those
\* of the customized rules it gave another title (retitled), and whether the step
\* before was the same call (again).
CallSync(chat_id, rules_) ==
    LET res == sync_system_rules_for_chat(Db, chat_id, rules_)
        was == IF pcall.fn = "sync_system_rules_for_chat" /\ pcall.chat_id = chat_id
               THEN pcall.dropped ELSE {}
    IN  /\ rules_ # <<>>
        /\ res.D.rule_seq <= MaxRuleId
        /\ DbCommit(res.D)
        /\ pcall' = [fn |-> "sync_system_rules_for_chat", chat_id |-> chat_id,
                     rules |-> rules_,
                     again |-> /\ pcall.fn = "sync_system_rules_for_chat"
                               /\ pcall.chat_id = chat_id
                               /\ pcall.rules = rules_,
                     dropped |-> {k \in Customized(rules, chat_id) :
                                    SystemRows(res.D.rules, chat_id, k) = {}},
                     recreated |-> {k \in was : SystemRows(res.D.rules, chat_id, k) # {}},
                     retitled |-> {k \in Customized(rules, chat_id) :
                                     \E r \in SystemRows(rules, chat_id, k) :
                                        /\ res.D.rules[r].exists
                                        /\ res.D.rules[r].title # rules[r].title}]
        /\ pret' = [added |-> res.added, removed |-> res.removed]
        /\ UNCHANGED <<budget, dbRest>>

\* the wizard's stage await_edit_rule_time of a weekly rule
EditRuleTime(chat_id, rule_id) ==
    /\ rules[rule_id].exists
    /\ DbCommit([Db EXCEPT !.chats = upsert_chat(chats, chat_id),
                           !.rules = set_rule_time_hhmm(rules, chat_id, rule_id, EditedTime)])
    /\ DbEv("set_rule_time_hhmm", chat_id, rule_id)
    /\ UNCHANGED dbRest

\* the same stage of an interval rule
EditRuleInterval(chat_id, rule_id) ==
    /\ rules[rule_id].exists
    /\ DbCommit([Db EXCEPT !.chats = upsert_chat(chats, chat_id),
                           !.rules = set_rule_interval_minutes(rules, chat_id, rule_id,
                                                               EditedMinutes)])
    /\ DbEv("set_rule_interval_minutes", chat_id, rule_id)
    /\ UNCHANGED dbRest

\* the button rule_toggle
EditRuleEnabled(chat_id, rule_id) ==
    /\ rules[rule_id].exists
    /\ DbCommit([Db EXCEPT !.chats = upsert_chat(chats, chat_id),
                           !.rules = toggle_rule_enabled(rules, chat_id, rule_id)])
    /\ DbEv("toggle_rule_enabled", chat_id, rule_id)
    /\ UNCHANGED dbRest

\* the button rule_del: a system rule is shown again, any other rule is deleted
RuleDel(chat_id, rule_id) ==
    /\ rules[rule_id].exists
    /\ DbCommit([Db EXCEPT !.chats = upsert_chat(chats, chat_id),
                           !.rules = IF get_rule(rules, chat_id, rule_id).is_system THEN @
                                     ELSE delete_rule(rules, chat_id, rule_id)])
    /\ DbEv("delete_rule", chat_id, rule_id)
    /\ UNCHANGED dbRest

\* finalize_rule_create of an interval draft
CreateRule(chat_id) ==
    /\ rule_seq < MaxRuleId
    /\ DbCommit(create_rule_interval(Db, chat_id, "mine", EditedMinutes, "text", ""))
    /\ DbEv("create_rule_interval", chat_id, rule_seq + 1)
    /\ UNCHANGED dbRest

\* the button that turns the chat's notifications on or off
EditChatEnabled(chat_id) ==
    /\ DbCommit([Db EXCEPT !.chats = set_chat_enabled(chats, chat_id,
                                         ~upsert_chat(chats, chat_id)[chat_id].enabled)])
    /\ DbEv("set_chat_enabled", chat_id, 0)
    /\ UNCHANGED dbRest

\* the button that turns the meta line of the messages on or off
EditChatMeta(chat_id) ==
    /\ DbCommit([Db EXCEPT !.chats = set_chat_include_meta(chats, chat_id,
                                         ~upsert_chat(chats, chat_id)[chat_id].include_meta)])
    /\ DbEv("set_chat_include_meta", chat_id, 0)
    /\ UNCHANGED dbRest

\* on_migrate and on_chat_migrated, the storage part.  pcall keeps the call, whether
\* the new chat had a row (had_new), the old chat's rules (moved) and the
\* system_keys both chats had (collided).
CallMigrate(old_id, new_id) ==
    /\ DbCommit(migrate_chat_id(Db, old_id, new_id))
    /\ budget.admin > 0
    /\ budget' = [budget EXCEPT !.admin = @ - 1]
    /\ pcall' = [fn |-> "migrate_chat_id", chat_id |-> old_id, new_chat_id |-> new_id,
                 had_new |-> chats[new_id].exists,
                 moved |-> get_rules(rules, old_id),
                 collided |-> ({rules[r].system_key : r \in get_rules(rules, old_id)}
                               \cap {rules[r].system_key : r \in get_rules(rules, new_id)})
                              \ {NoKey}]
    /\ pret' = 0
    /\ UNCHANGED dbRest

\* storage as an earlier run left it: chat 1, its meta line turned off, no rules
DbInit ==
    /\ chats = set_chat_include_meta([c \in ChatIds |-> NoChat], 1, FALSE)
    /\ rules = [r \in DbRuleIds |-> NoRule]
    /\ rule_seq = 0
    /\ gen = <<>>
    /\ timers = {}
    /\ inflight = {}
    /\ pending = {}
    /\ now = StartTs
    /\ budget = [admin |-> MaxEdits, fire |-> 0]
    /\ last = AdminEv("init", 0, 0)
    /\ CallIdle /\ SenderIdle /\ FlowIdle /\ BotIdle

DbNext ==
    \/ \E c \in ChatIds, k \in Catalogs : CallSync(c, k)
    \/ \E c \in ChatIds, r \in DbRuleIds : EditRuleTime(c, r)
    \/ \E c \in ChatIds, r \in DbRuleIds : EditRuleInterval(c, r)
    \/ \E c \in ChatIds, r \in DbRuleIds : EditRuleEnabled(c, r)
    \/ \E c \in ChatIds, r \in DbRuleIds : RuleDel(c, r)
    \/ \E c \in ChatIds : CreateRule(c)
    \/ \E c \in ChatIds : EditChatEnabled(c)
    \/ \E c \in ChatIds : EditChatMeta(c)
    \/ \E old_id \in ChatIds, new_id \in ChatIds : CallMigrate(old_id, new_id)

DbSpec == DbInit /\ [][DbNext]_vars

-----------------------------------------------------------------------------
(* The content picker (bot/notify/picker.py) *)

\* random.random() is one of 0/RandomSteps .. (RandomSteps - 1)/RandomSteps; the
\* draws are passed as that numerator (rnd)
RandomSteps == 8

\* the lists weighted_choice is called on have at most MaxOptions options, the pools
\* of a rule at most MaxPool image options and MaxPool text options
MaxOptions == 3
MaxPool == 2
Weights == {0 - 1, 0, 1, 2}

\* the sum of the weights above 0 of options[1..n]
RECURSIVE PositiveWeight(_, _)
PositiveWeight(options, n) ==
    IF n = 0 THEN 0
    ELSE PositiveWeight(options, n - 1)
         + (IF options[n].weight > 0 THEN options[n].weight ELSE 0)

\* the second loop of weighted_choice from option i on, with upto the sum so far:
\* `upto >= r` with r = (rnd / RandomSteps) * total
RECURSIVE Upto(_, _, _, _, _)
Upto(options, i, upto, rnd, total) ==
    IF i > Len(options) THEN Len(options)
    ELSE IF options[i].weight <= 0 THEN Upto(options, i + 1, upto, rnd, total)
    ELSE IF (upto + options[i].weight) * RandomSteps >= rnd * total THEN i
    ELSE Upto(options, i + 1, upto + options[i].weight, rnd, total)

\* weighted_choice taking the first option whatever its weight
weighted_choice_first(options, rnd) == IF options = <<>> THEN 0 ELSE 1

\* weighted_choice: the position in options of the option it returns, 0 for None
weighted_choice(options, rnd) ==
    IF options = <<>> THEN 0
    ELSE LET total == PositiveWeight(options, Len(options))
         IN  IF total <= 0 THEN 1 ELSE Upto(options, 1, 0, rnd, total)

\* the files under the repository root that path references may name
Files == {"here.jpg"}

_is_image_option_available(ref, ref_type) ==
    /\ ref # ""
    /\ ref_type = "path" => ref \in Files

\* images = [i for i in image_options if _is_image_option_available(...)]
AvailableImages(image_options) ==
    LET available(i) == _is_image_option_available(i.ref, i.ref_type)
    IN  SelectSeq(image_options, available)

\* [t for t in text_options if t.get("image_option_id") == image_option_id]
TextsOf(text_options, image_option_id) ==
    LET tied(t) == t.image_option_id = image_option_id
    IN  SelectSeq(text_options, tied)

\* candidate_texts that never looks for the texts of the picked image
candidate_texts_untied(text_options, image_option_id) ==
    IF TextsOf(text_options, None) # <<>> THEN TextsOf(text_options, None)
    ELSE text_options

\* the candidate_texts of pick_system_content for the picked image (None: no image)
candidate_texts(text_options, image_option_id) ==
    LET tied == IF image_option_id = None THEN <<>>
                ELSE TextsOf(text_options, image_option_id)
        untied == TextsOf(text_options, None)
    IN  IF tied # <<>> THEN tied
        ELSE IF untied # <<>> THEN untied
        ELSE text_options

\* the PickedContent of an image and a text picked by their positions, "" and None
\* for None
PickedContent(images, picked_image, candidates, picked_text) ==
    [text |-> IF picked_text = 0 THEN "" ELSE candidates[picked_text].text,
     image_ref |-> IF picked_image = 0 THEN "" ELSE images[picked_image].ref,
     image_ref_type |-> IF picked_image = 0 THEN "" ELSE images[picked_image].ref_type,
     image_option_id |-> IF picked_image = 0 THEN None ELSE images[picked_image].id]

pick_system_content(text_options, image_options, rnd_image, rnd_text) ==
    LET images == AvailableImages(image_options)
        picked_image == weighted_choice(images, rnd_image)
        image_option_id == IF picked_image = 0 THEN None ELSE images[picked_image].id
        candidates == candidate_texts(text_options, image_option_id)
    IN  PickedContent(images, picked_image, candidates,
                      weighted_choice(candidates, rnd_text))

\* the lists tried: options with their position as id; image options 10, 11, ... by
\* file id, by the path of a file and by the path of no file; text options T1, T2,
\* ... tied to image 10, to image 11 or to none
OptionLists ==
    UNION {{[i \in 1..n |-> [id |-> i, weight |-> w[i]]] : w \in [1..n -> Weights]} :
              n \in 0..MaxOptions}

ImageKinds == {<<"FILE_ID", "file_id", 0>>, <<"FILE_ID", "file_id", 1>>,
               <<"here.jpg", "path", 1>>, <<"gone.jpg", "path", 1>>}

ImageLists ==
    UNION {{[i \in 1..n |-> [id |-> 9 + i, ref |-> f[i][1], ref_type |-> f[i][2],
                             weight |-> f[i][3]]] :
               f \in [1..n -> ImageKinds]} : n \in 0..MaxPool}

TextNames == <<"T1", "T2", "T3", "T4">>

TextLists ==
    UNION {{[i \in 1..n |-> [id |-> i, image_option_id |-> f[i][1], text |-> TextNames[i],
                             weight |-> f[i][2]]] :
               f \in [1..n -> {None, 10, 11} \X {0, 1}]} : n \in 0..MaxPool}

\* what the picker's steps leave alone
pickRest == <<gen, schedRest, sender, user_data>>

\* the call is made on the list drawn at the start
CallWeightedChoice ==
    /\ "options" \in DOMAIN pcall
    /\ \E rnd \in 0..(RandomSteps - 1) : pret' = weighted_choice(pcall.options, rnd)
    /\ pcall' = [pcall EXCEPT !.fn = "weighted_choice"]
    /\ UNCHANGED pickRest

\* the call is made on the pools drawn at the start
CallPickSystemContent ==
    /\ "text_options" \in DOMAIN pcall
    /\ \E rnd_image \in 0..(RandomSteps - 1), rnd_text \in 0..(RandomSteps - 1) :
          pret' = pick_system_content(pcall.text_options, pcall.image_options,
                                      rnd_image, rnd_text)
    /\ pcall' = [pcall EXCEPT !.fn = "pick_system_content"]
    /\ UNCHANGED pickRest

PickInit ==
    /\ SchedIdle /\ gen = <<>> /\ SenderIdle /\ FlowIdle /\ BotIdle
    /\ pret = 0
    /\ \/ \E options \in OptionLists : pcall = [fn |-> "none", options |-> options]
       \/ \E text_options \in TextLists, image_options \in ImageLists :
             pcall = [fn |-> "none", text_options |-> text_options,
                      image_options |-> image_options]

PickNext ==
    \/ CallWeightedChoice
    \/ CallPickSystemContent

PickSpec == PickInit /\ [][PickNext]_vars

-----------------------------------------------------------------------------
(* The administrator check (bot/handlers/utils.py) and the handlers that make it *)

ADMIN_CHECK_CACHE_TTL_S == 120
ADMIN_CHECK_CACHE_MAX_SIZE == 1000
\* max_attempts of check_admin_in_groups
max_attempts == 3
DEFAULT_DRAFT_TTL_S == 30 * 60

\* the clock moves in steps of the cache's TTL, MaxTtlSteps times at most
MaxTtlSteps == 1
\* handler runs in a behaviour
MaxHandlerRuns == 2

AdminUsers == {10, 11}
ChatTypes == {"private", "supergroup"}
MemberStatuses == {"creator", "administrator", "member"}
CheckErrors == {"RetryAfter", "NetworkError", "Exception"}
CacheKeys == ChatIds \X AdminUsers

is_group(chat_type) == chat_type \in {"group", "supergroup"}

\* no entry under a key of admin_check_cache
NoEntry == [present |-> FALSE, allowed |-> FALSE, expires_at |-> 0]

\* _cleanup_admin_check_cache: the expired entries go; the trimming to
\* ADMIN_CHECK_CACHE_MAX_SIZE that follows has nothing left to drop with CacheKeys keys
_cleanup_admin_check_cache(cache, now_ts) ==
    [k \in DOMAIN cache |-> IF cache[k].present /\ cache[k].expires_at <= now_ts
                            THEN NoEntry ELSE cache[k]]

CacheSize(cache) == Cardinality({k \in DOMAIN cache : cache[k].present})

\* check_admin_in_groups up to its first query: done with a verdict (allowed, ok), or
\* not done, and the cache it leaves
CheckStart(cache, chat_type, key, now_ts) ==
    LET cache1 == IF CacheSize(cache) > ADMIN_CHECK_CACHE_MAX_SIZE
                  THEN _cleanup_admin_check_cache(cache, now_ts) ELSE cache
        cached == cache1[key]
    IN  IF ~is_group(chat_type)
        THEN [cache |-> cache, done |-> TRUE, allowed |-> TRUE, ok |-> TRUE]
        ELSE IF cached.present /\ cached.expires_at > now_ts
        THEN [cache |-> cache1, done |-> TRUE, allowed |-> cached.allowed, ok |-> TRUE]
        ELSE [cache |-> [cache1 EXCEPT ![key] = NoEntry], done |-> FALSE,
              allowed |-> FALSE, ok |-> FALSE]

\* variant: the verdict of a query is not cached
CheckQueryOk_uncached(cache, key, now_ts, status) ==
    [cache |-> cache, done |-> TRUE,
     allowed |-> status \in {"administrator", "creator"}, ok |-> TRUE]

\* get_chat_member returned: the verdict is cached and returned
CheckQueryOk(cache, key, now_ts, status) ==
    LET allowed == status \in {"administrator", "creator"}
        cache1 == [cache EXCEPT ![key] = [present |-> TRUE, allowed |-> allowed,
                                          expires_at |-> now_ts + ADMIN_CHECK_CACHE_TTL_S]]
    IN  [cache |-> IF CacheSize(cache1) > ADMIN_CHECK_CACHE_MAX_SIZE
                   THEN _cleanup_admin_check_cache(cache1, now_ts) ELSE cache1,
         done |-> TRUE, allowed |-> allowed, ok |-> TRUE]

\* get_chat_member raised on this attempt: (False, False) on the last one, else a
\* sleep and the next attempt
CheckQueryFails(cache, attempt) ==
    [cache |-> cache, done |-> attempt >= max_attempts, allowed |-> FALSE, ok |-> FALSE]

\* the catalog loaded at startup (bot_data["system_rules"])
AdminCatalog == <<IntervalEntry("water", "Water", 60, TRUE)>>

\* _sync_system
_sync_system(D, chat_id, system_rules) ==
    IF system_rules # <<>> THEN sync_system_rules_for_chat(D, chat_id, system_rules).D ELSE D

\* the handlers that make the check
Handlers == {"cmd_start", "cmd_menu", "on_photo", "on_text", "toggle_chat"}

\* what a handler does before the check: /start and /menu make sure the chat has a row
\* and reconcile the catalog into it; the others read the user's state
HandlerBefore(h, D, chat_id, system_rules) ==
    IF h \in {"cmd_start", "cmd_menu"}
    THEN _sync_system([D EXCEPT !.chats = upsert_chat(D.chats, chat_id)], chat_id, system_rules)
    ELSE D

\* whether the handler gets as far as the check: on_text needs a draft, on_photo an
\* awaited photo
HandlerChecks(h, U, chat_id, user_id, now_ts) ==
    CASE h = "on_text" -> get_draft(U, chat_id, user_id, now_ts).ret.present
      [] h = "on_photo" -> get_awaiting_photo(U, chat_id, user_id, now_ts).ret.present
      [] OTHER -> TRUE

HandlerUserData(h, U, chat_id, user_id, now_ts) ==
    CASE h = "on_text" -> get_draft(U, chat_id, user_id, now_ts).U
      [] h = "on_photo" -> get_awaiting_photo(U, chat_id, user_id, now_ts).U
      [] OTHER -> U

\* the state of one handler run; the fields from handler on are kept after the run
NoRun == [pc |-> "idle", handler |-> "", chat_id |-> 0, chat_type |-> "", user_id |-> 0,
          now_ts |-> 0, attempt |-> 0, succeeded |-> FALSE, allowed |-> FALSE, ok |-> FALSE,
          before |-> <<>>, cache0 |-> <<>>]

adminRest == <<inflight, pending, last, pcall, pret, sender>>

\* a handler starts and runs up to the first query of the check, or up to its verdict
HandlerStart(h, chat_id, chat_type, user_id) ==
    LET D == HandlerBefore(h, Db, chat_id, bot_data.system_rules)
        c == CheckStart(bot_data.admin_check_cache, chat_type, <<chat_id, user_id>>, now)
    IN  /\ tasks.pc \in {"idle", "done"}
        /\ budget.admin > 0
        /\ budget' = [budget EXCEPT !.admin = @ - 1]
        /\ D.rule_seq <= MaxRuleId
        /\ DbCommit(D)
        /\ user_data' = HandlerUserData(h, user_data, chat_id, user_id, now)
        /\ IF HandlerChecks(h, user_data, chat_id, user_id, now)
           THEN /\ bot_data' = [bot_data EXCEPT !.admin_check_cache = c.cache]
                /\ tasks' = [NoRun EXCEPT
                               !.pc = IF c.done THEN "checked" ELSE "query",
                               !.handler = h, !.chat_id = chat_id, !.chat_type = chat_type,
                               !.user_id = user_id, !.now_ts = now,
                               !.allowed = c.allowed, !.ok = c.ok,
                               !.before = [chats |-> chats, rules |-> rules],
                               !.cache0 = bot_data.admin_check_cache]
           ELSE /\ tasks' = NoRun
                /\ UNCHANGED bot_data
        /\ UNCHANGED <<gen, timers, now, adminRest>>

\* get_chat_member returns the member's status
QueryReturns(status) ==
    LET c == CheckQueryOk(bot_data.admin_check_cache, <<tasks.chat_id, tasks.user_id>>,
                          tasks.now_ts, status)
    IN  /\ tasks.pc = "query"
        /\ bot_data' = [bot_data EXCEPT !.admin_check_cache = c.cache]
        /\ tasks' = [tasks EXCEPT !.pc = "checked", !.attempt = @ + 1, !.succeeded = TRUE,
                                  !.allowed = c.allowed, !.ok = c.ok]
        /\ UNCHANGED <<chats, rules, rule_seq, gen, timers, now, budget, user_data, adminRest>>

\* get_chat_member raises
QueryRaises(e) ==
    LET c == CheckQueryFails(bot_data.admin_check_cache, tasks.attempt + 1)
    IN  /\ tasks.pc = "query"
        /\ tasks' = [tasks EXCEPT !.pc = IF c.done THEN "checked" ELSE "query",
                                  !.attempt = @ + 1, !.allowed = c.allowed, !.ok = c.ok]
        /\ UNCHANGED <<chats, rules, rule_seq, gen, timers, now, budget, user_data, bot_data,
                       adminRest>>

\* what a handler does with the verdict: nothing but a reply unless it is (True, True);
\* then /start schedules the chat's jobs once startup scheduling is done, toggle_chat
\* turns the chat on or off and reschedules it, on_text applies the draft of a title
\* edit and on_photo stores the awaited image
HandlerAfter(h, S, U, chat_id, user_id, startup_scheduling_done) ==
    CASE h = "cmd_start" ->
           [S |-> IF startup_scheduling_done THEN reschedule_chat_jobs(S, chat_id) ELSE S,
            U |-> U]
      [] h = "toggle_chat" ->
           [S |-> reschedule_chat_jobs(
                     [S EXCEPT !.chats = set_chat_enabled(S.chats, chat_id,
                                            ~upsert_chat(S.chats, chat_id)[chat_id].enabled)],
                     chat_id),
            U |-> U]
      [] h = "on_text" ->
           IF U.draft_rule.stage = "await_edit_rule_title" /\ U.draft_rule.rule_id > 0
           THEN [S |-> [S EXCEPT !.chats = upsert_chat(S.chats, chat_id),
                                 !.rules = set_rule_title(S.rules, chat_id,
                                                          U.draft_rule.rule_id, "Renamed")],
                 U |-> clear_flow(U)]
           ELSE [S |-> S, U |-> U]
      [] h = "on_photo" ->
           IF U.awaiting_photo.mode = "rule_image" /\ U.awaiting_photo.rule_id > 0
           THEN [S |-> [S EXCEPT !.chats = upsert_chat(S.chats, chat_id),
                                 !.rules = set_rule_image_file_id(S.rules, chat_id,
                                              U.awaiting_photo.rule_id, "PHOTO")],
                 U |-> clear_awaiting_photo(U)]
           ELSE [S |-> S, U |-> U]
      [] OTHER -> [S |-> S, U |-> U]

\* the handler goes on from the verdict to its end
HandlerFinish ==
    LET res == IF tasks.ok /\ tasks.allowed
               THEN HandlerAfter(tasks.handler, Cur, user_data, tasks.chat_id, tasks.user_id,
                                 bot_data.startup_scheduling_done)
               ELSE [S |-> Cur, U |-> user_data]
    IN  /\ tasks.pc = "checked"
        /\ Commit(res.S)
        /\ user_data' = res.U
        /\ tasks' = [tasks EXCEPT !.pc = "done"]
        /\ UNCHANGED <<rule_seq, budget, bot_data, adminRest>>

\* time passes: the entries cached a TTL ago expire
AdminTick ==
    /\ now < StartTs + MaxTtlSteps * ADMIN_CHECK_CACHE_TTL_S
    /\ now' = now + ADMIN_CHECK_CACHE_TTL_S
    /\ UNCHANGED <<chats, rules, rule_seq, gen, timers, budget, user_data, bot_data, tasks,
                   adminRest>>

\* chat 1 is known and has a rule of its own; user 10 is editing that rule's title and
\* has been asked for its image
AdminInit ==
    /\ chats = upsert_chat([c \in ChatIds |-> NoChat], 1)
    /\ rules = [r \in DbRuleIds |->
                  IF r = 1
                  THEN [NoRule EXCEPT !.id = 1, !.exists = TRUE, !.chat_id = 1,
                                      !.kind = "interval", !.interval_minutes = 60,
                                      !.title = "mine", !.message_text = "text",
                                      !.enabled = TRUE, !.created_at_ts = StartTs - 60]
                  ELSE NoRule]
    /\ rule_seq = 1
    /\ gen = <<>>
    /\ timers = {}
    /\ inflight = {}
    /\ pending = {}
    /\ now = StartTs
    /\ budget = [admin |-> MaxHandlerRuns, fire |-> 0]
    /\ last = AdminEv("init", 0, 0)
    /\ CallIdle /\ SenderIdle
    /\ user_data =
          [draft_rule |-> [NoValue EXCEPT !.present = TRUE, !.chat_id = 1,
                                          !.actor_user_id = 10,
                                          !.expires_at_ts = StartTs + DEFAULT_DRAFT_TTL_S,
                                          !.stage = "await_edit_rule_title", !.rule_id = 1],
           awaiting_photo |-> [NoValue EXCEPT !.present = TRUE, !.chat_id = 1,
                                              !.actor_user_id = 10,
                                              !.expires_at_ts = StartTs + DEFAULT_DRAFT_TTL_S,
                                              !.mode = "rule_image", !.rule_id = 1]]
    /\ bot_data = [admin_check_cache |-> [k \in CacheKeys |-> NoEntry],
                   system_rules |-> AdminCatalog,
                   startup_scheduling_done |-> TRUE]
    /\ tasks = NoRun

AdminNext ==
    \/ \E h \in Handlers, c \in ChatIds, t \in ChatTypes, u \in AdminUsers :
          HandlerStart(h, c, t, u)
    \/ \E status \in MemberStatuses : QueryReturns(status)
    \/ \E e \in CheckErrors : QueryRaises(e)
    \/ HandlerFinish
    \/ AdminTick

AdminSpec == AdminInit /\ [][AdminNext]_vars

-----------------------------------------------------------------------------
(* The rule wizard (bot/handlers/menu.py on_callback, bot/handlers/messages.py
   on_text and on_photo).  W is what a handler works on: the storage
   [chats, rules, rule_seq], the scheduler's [gen, timers, now] and the user's
   user_data as U.  A handler is taken whole; the admin check's verdict, whether the
   message replies to the bot's prompt and whether the next prompt could be sent
   are its inputs. *)

\* a behaviour of the wizard is followed until MaxWrites handler runs have written
\* to the rules or to the job queue
MaxWrites == 1
\* the clock passes the drafts' time to live MaxDraftTtls times at most
MaxDraftTtls == 1

WizChat == 1
WizUser == 10
\* the day buttons pressed: Sunday
WizDays == {6}
\* the button of kb_pick_interval pressed: "60 min"
IntervalPresets == {60}
Verdicts == {"allowed", "denied", "indeterminate"}

\* `hh, mm = text.split(":")`, int() of both, the range check and the "%02d:%02d"
\* it is stored as; NoTime where the code raises
ParseTime(text) ==
    CASE text = "9:5" -> "09:05"
      [] OTHER -> NoTime

\* int(text) within 1..60*24*7; 0 where the code raises
ParseMinutes(text) ==
    CASE text = "120" -> 120
      [] OTHER -> 0

\* text.strip()
Strip(text) == IF text = " " THEN "" ELSE text

\* the replies tried on a draft, by what its stage asks for
TextsAt(draft) ==
    CASE draft.stage = "await_time" -> {"9:5", "24:00", " "}
      [] draft.stage = "await_interval_custom" -> {"120", "10081", " "}
      [] draft.stage = "await_edit_rule_time" ->
           IF draft.kind = "weekly" THEN {"9:5", "9:60", " "} ELSE {"120", "0", " "}
      [] OTHER -> {"Feed the cat", " "}

\* a dict literal of the handlers, before touch_or_init_draft
NewValue == [NoValue EXCEPT !.present = TRUE]

touch_or_init_draft(draft, chat_id, actor_user_id, now_ts) ==
    [draft EXCEPT !.present = TRUE, !.chat_id = chat_id, !.actor_user_id = actor_user_id,
                  !.expires_at_ts = IF @ = 0 THEN now_ts + DEFAULT_DRAFT_TTL_S ELSE @]

touch_or_init_awaiting(awaiting, chat_id, actor_user_id, now_ts) ==
    touch_or_init_draft(awaiting, chat_id, actor_user_id, now_ts)

set_stage_after_prompt(draft, stage) == [draft EXCEPT !.stage = stage]

\* a handler's repo call on a chat starts with upsert_chat
Upserted(W, chat_id) == [W EXCEPT !.chats = upsert_chat(W.chats, chat_id)]

\* get_draft on W: the draft it returns and W with what it cleared
DraftOf(W, chat_id, user_id) ==
    LET g == get_draft(W.U, chat_id, user_id, W.now)
    IN  [W |-> [W EXCEPT !.U = g.U], draft |-> g.ret]

\* finalize_rule_create: W with the new row and its id; raised when the draft's kind
\* is neither weekly nor interval or int(draft["interval_minutes"]) raises
finalize_rule_create(W, chat_id, draft) ==
    LET title == IF Strip(draft.title) = "" THEN "Notification" ELSE Strip(draft.title)
        time_hhmm == IF draft.time_hhmm = NoTime THEN "None" ELSE draft.time_hhmm
    IN  IF draft.kind = "weekly"
        THEN [W |-> create_rule_weekly(W, chat_id, title, draft.days, time_hhmm,
                                       draft.message_text, draft.image_file_id),
              rule_id |-> W.rule_seq + 1, raised |-> FALSE]
        ELSE IF draft.kind = "interval" /\ draft.interval_minutes # 0
        THEN [W |-> create_rule_interval(W, chat_id, title, draft.interval_minutes,
                                         draft.message_text, draft.image_file_id),
              rule_id |-> W.rule_seq + 1, raised |-> FALSE]
        ELSE [W |-> W, rule_id |-> 0, raised |-> TRUE]

\* reschedule_rule_job of a rule just written; _schedule_rule_job raises on a weekly
\* rule whose time_hhmm is not HH:MM, after its generation was bumped
RescheduleWritten(W, chat_id, rule_id) ==
    LET rule == get_rule(W.rules, chat_id, rule_id)
        S == reschedule_rule_job(W, chat_id, rule_id)
    IN  IF rule.exists /\ rule.kind = "weekly" /\ rule.time_hhmm = "None"
        THEN [S EXCEPT !.timers = {t \in @ : t.rule_id # rule_id}]
        ELSE S

\* on_callback, action rule_add
cb_rule_add(W, chat_id, user_id) == [W EXCEPT !.U = clear_flow(@)]

\* action add_kind_weekly: the draft starts with no day picked
cb_add_kind_weekly(W, chat_id, user_id) ==
    [W EXCEPT !.U = set_draft(@, touch_or_init_draft(
                          [NewValue EXCEPT !.kind = "weekly", !.stage = "pick_days"],
                          chat_id, user_id, W.now))]

\* action day_toggle: `selected.remove(day)` or `selected.add(day)`; days is a list
\* once day_done or on_text has sorted it, and a list has no add
cb_day_toggle(W, chat_id, user_id, day) ==
    LET d == DraftOf(W, chat_id, user_id)
    IN  IF ~d.draft.present \/ d.draft.kind # "weekly" THEN d.W
        ELSE IF day \in d.draft.days
        THEN [d.W EXCEPT !.U = set_draft(@, [d.draft EXCEPT !.days = @ \ {day}])]
        ELSE IF d.draft.days_list THEN d.W
        ELSE [d.W EXCEPT !.U = set_draft(@, [d.draft EXCEPT !.days = @ \cup {day}])]

\* action day_done
cb_day_done(W, chat_id, user_id, prompt_ok) ==
    LET d == DraftOf(W, chat_id, user_id)
    IN  IF ~d.draft.present \/ d.draft.days = {} \/ ~prompt_ok THEN d.W
        ELSE [d.W EXCEPT !.U = set_draft(@, set_stage_after_prompt(
                    [d.draft EXCEPT !.days_list = TRUE], "await_time"))]

\* action add_kind_interval
cb_add_kind_interval(W, chat_id, user_id) ==
    [W EXCEPT !.U = set_draft(@, touch_or_init_draft(
                          [NewValue EXCEPT !.kind = "interval", !.stage = "pick_interval"],
                          chat_id, user_id, W.now))]

\* action interval: a preset asks for the title at once
cb_interval(W, chat_id, user_id, minutes, prompt_ok) ==
    IF ~prompt_ok THEN W
    ELSE [W EXCEPT !.U = set_draft(@, set_stage_after_prompt(
                  touch_or_init_draft(
                      [NewValue EXCEPT !.kind = "interval", !.interval_minutes = minutes],
                      chat_id, user_id, W.now),
                  "await_rule_title"))]

\* action interval_custom: `{**draft0, "kind": "interval"}` of the draft at hand
cb_interval_custom(W, chat_id, user_id, prompt_ok) ==
    LET d == DraftOf(W, chat_id, user_id)
        draft0 == IF d.draft.present THEN d.draft ELSE NewValue
    IN  IF ~prompt_ok THEN d.W
        ELSE [d.W EXCEPT !.U = set_draft(@, set_stage_after_prompt(
                    touch_or_init_draft([draft0 EXCEPT !.kind = "interval"],
                                        chat_id, user_id, W.now),
                    "await_interval_custom"))]

\* action rule_toggle
cb_rule_toggle(W, chat_id, user_id, rule_id) ==
    RescheduleWritten(
        [Upserted(W, chat_id) EXCEPT !.rules = toggle_rule_enabled(@, chat_id, rule_id)],
        chat_id, rule_id)

\* the draft of an edit, stored once its prompt was sent
EditDraft(W, chat_id, user_id, draft, prompt_ok) ==
    IF ~prompt_ok THEN W
    ELSE [W EXCEPT !.U = set_draft(@, set_stage_after_prompt(
                  touch_or_init_draft(draft, chat_id, user_id, W.now), draft.stage))]

\* action rule_text_edit
cb_rule_text_edit(W, chat_id, user_id, rule_id, prompt_ok) ==
    LET W0 == Upserted(W, chat_id)
        rule == get_rule(W0.rules, chat_id, rule_id)
    IN  IF ~rule.exists \/ rule.is_system THEN W0
        ELSE EditDraft(W0, chat_id, user_id,
                       [NewValue EXCEPT !.stage = "await_edit_rule_text", !.rule_id = rule_id],
                       prompt_ok)

\* action rule_title_edit
cb_rule_title_edit(W, chat_id, user_id, rule_id, prompt_ok) ==
    LET W0 == Upserted(W, chat_id)
        rule == get_rule(W0.rules, chat_id, rule_id)
    IN  IF ~rule.exists \/ rule.is_system THEN W0
        ELSE EditDraft(W0, chat_id, user_id,
                       [NewValue EXCEPT !.stage = "await_edit_rule_title", !.rule_id = rule_id],
                       prompt_ok)

\* action rule_time_edit: open to system rules too
cb_rule_time_edit(W, chat_id, user_id, rule_id, prompt_ok) ==
    LET W0 == Upserted(W, chat_id)
        rule == get_rule(W0.rules, chat_id, rule_id)
    IN  IF ~rule.exists THEN W0
        ELSE EditDraft(W0, chat_id, user_id,
                       [NewValue EXCEPT !.stage = "await_edit_rule_time", !.rule_id = rule_id,
                                        !.kind = rule.kind],
                       prompt_ok)

\* action rule_image_set
cb_rule_image_set(W, chat_id, user_id, rule_id, prompt_ok) ==
    LET W0 == Upserted(W, chat_id)
        rule == get_rule(W0.rules, chat_id, rule_id)
    IN  IF ~rule.exists \/ rule.is_system \/ ~prompt_ok THEN W0
        ELSE [W0 EXCEPT !.U = set_awaiting_photo(@, touch_or_init_awaiting(
                      [NewValue EXCEPT !.mode = "rule_image", !.rule_id = rule_id],
                      chat_id, user_id, W.now))]

\* action rule_image_clear
cb_rule_image_clear(W, chat_id, user_id, rule_id) ==
    LET W0 == Upserted(W, chat_id)
    IN  IF get_rule(W0.rules, chat_id, rule_id).is_system THEN W0
        ELSE [W0 EXCEPT !.rules = set_rule_image_file_id(@, chat_id, rule_id, "")]

\* action draft_image_add
cb_draft_image_add(W, chat_id, user_id, prompt_ok) ==
    LET d == DraftOf(W, chat_id, user_id)
    IN  IF ~d.draft.present \/ d.draft.stage # "await_rule_image_choice" \/ ~prompt_ok
        THEN d.W
        ELSE [d.W EXCEPT !.U =
                 set_awaiting_photo(
                     set_draft(@, [d.draft EXCEPT !.stage = "await_rule_photo"]),
                     touch_or_init_awaiting([NewValue EXCEPT !.mode = "draft_rule"],
                                            chat_id, user_id, W.now))]

\* the rule of a draft is created and armed, and the flow is over; when
\* finalize_rule_create raises, the handler ends with image_file_id set in the draft
\* (a row past MaxRuleId is left to WizCommit to refuse)
CreateFrom(W, chat_id, draft) ==
    LET f == finalize_rule_create(W, chat_id, draft)
    IN  IF W.rule_seq >= MaxRuleId THEN [W EXCEPT !.rule_seq = MaxRuleId + 1]
        ELSE IF f.raised THEN [W EXCEPT !.U = set_draft(@, draft)]
        ELSE RescheduleWritten([f.W EXCEPT !.U = clear_flow(@)], chat_id, f.rule_id)

\* action draft_image_skip: the draft is context.user_data.get("draft_rule") itself
cb_draft_image_skip(W, chat_id, user_id) ==
    LET draft == W.U.draft_rule
    IN  IF ~draft.present \/ draft.chat_id # chat_id
           \/ draft.stage # "await_rule_image_choice" THEN W
        ELSE CreateFrom(W, chat_id, [draft EXCEPT !.image_file_id = ""])

\* action draft_cancel
cb_draft_cancel(W, chat_id, user_id) == [W EXCEPT !.U = clear_flow(@)]

\* action rule_del without `if rule0 and rule0.get("is_system")`
cb_rule_del_any(W, chat_id, user_id, rule_id) ==
    LET W0 == Upserted(W, chat_id)
    IN  RescheduleWritten(
            [W0 EXCEPT !.rules = delete_rule(@, chat_id, rule_id), !.U = clear_flow(@)],
            chat_id, rule_id)

\* action rule_del
cb_rule_del(W, chat_id, user_id, rule_id) ==
    LET W0 == Upserted(W, chat_id)
    IN  IF get_rule(W0.rules, chat_id, rule_id).is_system THEN W0
        ELSE RescheduleWritten(
                 [W0 EXCEPT !.rules = delete_rule(@, chat_id, rule_id), !.U = clear_flow(@)],
                 chat_id, rule_id)

\* a reply of on_text is asked for again: the draft keeps its stage and its fields
_reprompt_draft(W, chat_id, user_id, draft) == W

\* the draft moves on to the next stage once the prompt of that stage was sent
Advance(W, chat_id, user_id, draft_next, stage, prompt_ok) ==
    IF ~prompt_ok THEN W
    ELSE [W EXCEPT !.U = set_draft(@, set_stage_after_prompt(
                  touch_or_init_draft(draft_next, chat_id, user_id, W.now), stage))]

\* on_text past the reply and admin checks, at the draft's stage
on_text_stage(W, chat_id, user_id, draft, text0, prompt_ok) ==
    LET text == Strip(text0)
        stage == draft.stage
        Cleared == [W EXCEPT !.U = clear_flow(@)]
    IN  CASE stage = "await_time" ->
               IF ParseTime(text) = NoTime THEN W
               ELSE IF draft.days = {} THEN Cleared
               ELSE Advance(W, chat_id, user_id,
                            [draft EXCEPT !.time_hhmm = ParseTime(text), !.days_list = TRUE],
                            "await_rule_title", prompt_ok)
          [] stage = "await_interval_custom" ->
               IF ParseMinutes(text) = 0 THEN W
               ELSE Advance(W, chat_id, user_id,
                            [draft EXCEPT !.interval_minutes = ParseMinutes(text)],
                            "await_rule_title", prompt_ok)
          [] stage = "await_rule_title" ->
               IF text = "" THEN W
               ELSE Advance(W, chat_id, user_id, [draft EXCEPT !.title = text],
                            "await_rule_text", prompt_ok)
          [] stage = "await_rule_text" ->
               IF text = "" THEN W
               ELSE [W EXCEPT !.U = set_draft(@, [draft EXCEPT
                                        !.message_text = text,
                                        !.stage = "await_rule_image_choice"])]
          [] stage = "await_edit_rule_text" ->
               IF draft.rule_id <= 0 THEN Cleared
               ELSE IF text = "" THEN W
               ELSE [Upserted(W, chat_id) EXCEPT
                        !.rules = set_rule_text(@, chat_id, draft.rule_id, text),
                        !.U = clear_flow(@)]
          [] stage = "await_edit_rule_title" ->
               IF draft.rule_id <= 0 THEN Cleared
               ELSE IF text = "" THEN W
               ELSE [Upserted(W, chat_id) EXCEPT
                        !.rules = set_rule_title(@, chat_id, draft.rule_id, text),
                        !.U = clear_flow(@)]
          [] stage = "await_edit_rule_time" ->
               IF draft.rule_id <= 0 \/ draft.kind \notin {"weekly", "interval"} THEN Cleared
               ELSE IF draft.kind = "weekly"
               THEN IF ParseTime(text) = NoTime THEN W
                    ELSE RescheduleWritten(
                             [Upserted(W, chat_id) EXCEPT
                                 !.rules = set_rule_time_hhmm(@, chat_id, draft.rule_id,
                                                              ParseTime(text)),
                                 !.U = clear_flow(@)],
                             chat_id, draft.rule_id)
               ELSE IF ParseMinutes(text) = 0 THEN W
                    ELSE RescheduleWritten(
                             [Upserted(W, chat_id) EXCEPT
                                 !.rules = set_rule_interval_minutes(@, chat_id, draft.rule_id,
                                                                     ParseMinutes(text)),
                                 !.U = clear_flow(@)],
                             chat_id, draft.rule_id)
          [] OTHER -> W

on_text(W, chat_id, user_id, text, is_reply, verdict, prompt_ok) ==
    LET d == DraftOf(W, chat_id, user_id)
    IN  IF ~d.draft.present THEN d.W
        ELSE IF ~is_reply THEN _reprompt_draft(d.W, chat_id, user_id, d.draft)
        ELSE IF verdict = "indeterminate" THEN _reprompt_draft(d.W, chat_id, user_id, d.draft)
        ELSE IF verdict = "denied" THEN d.W
        ELSE on_text_stage(d.W, chat_id, user_id, d.draft, text, prompt_ok)

\* _reprompt_photo: the prompt for the photo is sent again; with mode draft_rule the
\* draft at hand is put to the stage await_rule_photo
_reprompt_photo(W, chat_id, user_id, awaiting, prompt_ok) ==
    IF awaiting.mode = "draft_rule"
    THEN LET d == DraftOf(W, chat_id, user_id)
         IN  IF ~d.draft.present \/ ~prompt_ok THEN d.W
             ELSE [d.W EXCEPT !.U =
                      set_awaiting_photo(
                          set_draft(@, set_stage_after_prompt(d.draft, "await_rule_photo")),
                          touch_or_init_awaiting([NewValue EXCEPT !.mode = "draft_rule"],
                                                 chat_id, user_id, W.now))]
    ELSE IF awaiting.mode = "rule_image"
    THEN IF ~prompt_ok THEN W
         ELSE [W EXCEPT !.U = set_awaiting_photo(@, touch_or_init_awaiting(
                      [NewValue EXCEPT !.mode = "rule_image", !.rule_id = awaiting.rule_id],
                      chat_id, user_id, W.now))]
    ELSE W

on_photo(W, chat_id, user_id, is_reply, verdict, prompt_ok) ==
    LET a == get_awaiting_photo(W.U, chat_id, user_id, W.now)
        W0 == [W EXCEPT !.U = a.U]
        awaiting == a.ret
        d == DraftOf(W0, chat_id, user_id)
    IN  IF ~awaiting.present THEN W0
        ELSE IF ~is_reply THEN _reprompt_photo(W0, chat_id, user_id, awaiting, prompt_ok)
        ELSE IF verdict = "indeterminate"
        THEN _reprompt_photo(W0, chat_id, user_id, awaiting, prompt_ok)
        ELSE IF verdict = "denied" THEN W0
        ELSE IF awaiting.mode = "draft_rule"
        THEN IF ~d.draft.present \/ d.draft.stage # "await_rule_photo" THEN d.W
             ELSE CreateFrom(d.W, chat_id, [d.draft EXCEPT !.image_file_id = "PHOTO"])
        ELSE IF awaiting.mode = "rule_image"
        THEN IF awaiting.rule_id <= 0 THEN W0
             ELSE [Upserted(W0, chat_id) EXCEPT
                      !.rules = set_rule_image_file_id(@, chat_id, awaiting.rule_id, "PHOTO"),
                      !.U = clear_awaiting_photo(@)]
        ELSE W0

\* the buttons of the menus: callback_data is "<action>:<chat_id>[:<rule id, day or minutes>]"
CallbackActions ==
    {"rule_add", "add_kind_weekly", "day_toggle", "day_done", "add_kind_interval", "interval",
     "interval_custom", "rule_toggle", "rule_text_edit", "rule_title_edit", "rule_time_edit",
     "rule_image_set", "rule_image_clear", "draft_image_add", "draft_image_skip",
     "draft_cancel", "rule_del"}

\* the actions that send a prompt, which may fail
Prompting ==
    {"day_done", "interval", "interval_custom", "rule_text_edit", "rule_title_edit",
     "rule_time_edit", "rule_image_set", "draft_image_add"}

PromptOutcomes(action) == IF action \in Prompting THEN BOOLEAN ELSE {TRUE}

\* what the third part of callback_data can be for an action
CallbackArgs(action) ==
    CASE action = "day_toggle" -> WizDays
      [] action = "interval" -> IntervalPresets
      [] action \in {"rule_toggle", "rule_text_edit", "rule_title_edit", "rule_time_edit",
                     "rule_image_set", "rule_image_clear", "rule_del"} -> DbRuleIds
      [] OTHER -> {0}

\* on_callback past its admin check
on_callback(W, chat_id, user_id, action, arg, prompt_ok) ==
    CASE action = "rule_add" -> cb_rule_add(W, chat_id, user_id)
      [] action = "add_kind_weekly" -> cb_add_kind_weekly(W, chat_id, user_id)
      [] action = "day_toggle" -> cb_day_toggle(W, chat_id, user_id, arg)
      [] action = "day_done" -> cb_day_done(W, chat_id, user_id, prompt_ok)
      [] action = "add_kind_interval" -> cb_add_kind_interval(W, chat_id, user_id)
      [] action = "interval" -> cb_interval(W, chat_id, user_id, arg, prompt_ok)
      [] action = "interval_custom" -> cb_interval_custom(W, chat_id, user_id, prompt_ok)
      [] action = "rule_toggle" -> cb_rule_toggle(W, chat_id, user_id, arg)
      [] action = "rule_text_edit" -> cb_rule_text_edit(W, chat_id, user_id, arg, prompt_ok)
      [] action = "rule_title_edit" -> cb_rule_title_edit(W, chat_id, user_id, arg, prompt_ok)
      [] action = "rule_time_edit" -> cb_rule_time_edit(W, chat_id, user_id, arg, prompt_ok)
      [] action = "rule_image_set" -> cb_rule_image_set(W, chat_id, user_id, arg, prompt_ok)
      [] action = "rule_image_clear" -> cb_rule_image_clear(W, chat_id, user_id, arg)
      [] action = "draft_image_add" -> cb_draft_image_add(W, chat_id, user_id, prompt_ok)
      [] action = "draft_image_skip" -> cb_draft_image_skip(W, chat_id, user_id)
      [] action = "draft_cancel" -> cb_draft_cancel(W, chat_id, user_id)
      [] action = "rule_del" -> cb_rule_del(W, chat_id, user_id, arg)
      [] OTHER -> W

WizW == [chats |-> chats, rules |-> rules, rule_seq |-> rule_seq, gen |-> gen,
         timers |-> timers, now |-> now, U |-> user_data]

\* a handler ends: what it wrote is the state; a handler that writes to the rules or
\* to the job queue counts against MaxWrites, a new row against MaxRuleId
WizCommit(W) ==
    /\ budget.admin > 0
    /\ W.rule_seq <= MaxRuleId
    /\ IF W.rules # rules \/ W.gen # gen \/ W.timers # timers
       THEN UseAdmin ELSE UNCHANGED budget
    /\ chats' = W.chats
    /\ rules' = W.rules
    /\ rule_seq' = W.rule_seq
    /\ gen' = W.gen
    /\ timers' = W.timers
    /\ user_data' = W.U
    /\ pret' = 0
    /\ UNCHANGED <<now, inflight, pending, last, sender, bot_data, tasks>>

\* a button is pressed
OnCallback(action, arg, verdict, prompt_ok) ==
    /\ pcall' = [fn |-> "on_callback", text |-> ""]
    /\ WizCommit(IF verdict = "allowed"
                 THEN on_callback(WizW, WizChat, WizUser, action, arg, prompt_ok)
                 ELSE WizW)

\* a text message arrives
OnText(text, is_reply, verdict, prompt_ok) ==
    /\ pcall' = [fn |-> "on_text", text |-> text]
    /\ WizCommit(on_text(WizW, WizChat, WizUser, text, is_reply, verdict, prompt_ok))

\* a photo arrives
OnPhoto(is_reply, verdict, prompt_ok) ==
    /\ pcall' = [fn |-> "on_photo", text |-> ""]
    /\ WizCommit(on_photo(WizW, WizChat, WizUser, is_reply, verdict, prompt_ok))

\* time passes: the drafts and awaited photos stored so far expire
WizTick ==
    /\ budget.admin > 0
    /\ now < StartTs + MaxDraftTtls * (DEFAULT_DRAFT_TTL_S + 1)
    /\ now' = now + DEFAULT_DRAFT_TTL_S + 1
    /\ pcall' = [fn |-> "tick", text |-> ""]
    /\ UNCHANGED <<chats, rules, rule_seq, gen, timers, budget, user_data, pret, inflight,
                   pending, last, sender, bot_data, tasks>>

\* the chat's rules at the start: a weekly system rule and an interval rule of the chat's own
WizRules ==
    [r \in DbRuleIds |->
       IF r = 1
       THEN [NoRule EXCEPT !.id = 1, !.exists = TRUE, !.chat_id = WizChat, !.kind = "weekly",
                           !.days = {0}, !.time_hhmm = "09:00", !.title = "Feed",
                           !.is_system = TRUE, !.system_key = "feed", !.sort_order = 0,
                           !.images = Image("Feed"), !.enabled = TRUE,
                           !.created_at_ts = StartTs - 60]
       ELSE IF r = 2
       THEN [NoRule EXCEPT !.id = 2, !.exists = TRUE, !.chat_id = WizChat,
                           !.kind = "interval", !.interval_minutes = 60, !.title = "mine",
                           !.message_text = "text", !.enabled = TRUE,
                           !.created_at_ts = StartTs - 60]
       ELSE NoRule]

\* the chat is known, its rules are armed as the startup sweep arms them, no flow is
\* under way
WizInit ==
    LET S == reschedule_chat_jobs(
                 [chats |-> upsert_chat([c \in ChatIds |-> NoChat], WizChat),
                  rules |-> WizRules, gen |-> <<>>, timers |-> {}, now |-> StartTs],
                 WizChat)
    IN  /\ chats = S.chats
        /\ rules = S.rules
        /\ rule_seq = 2
        /\ gen = S.gen
        /\ timers = S.timers
        /\ now = StartTs
        /\ inflight = {}
        /\ pending = {}
        /\ budget = [admin |-> MaxWrites, fire |-> 0]
        /\ last = AdminEv("init", 0, 0)
        /\ CallIdle /\ SenderIdle /\ FlowIdle /\ BotIdle

WizNext ==
    \/ \E action \in CallbackActions, verdict \in {"allowed", "denied"} :
          \E arg \in CallbackArgs(action), prompt_ok \in PromptOutcomes(action) :
             OnCallback(action, arg, verdict, prompt_ok)
    \/ \E text \in TextsAt(user_data.draft_rule), is_reply \in BOOLEAN,
          verdict \in Verdicts, prompt_ok \in BOOLEAN :
          OnText(text, is_reply, verdict, prompt_ok)
    \/ \E is_reply \in BOOLEAN, verdict \in Verdicts, prompt_ok \in BOOLEAN :
          OnPhoto(is_reply, verdict, prompt_ok)
    \/ WizTick

WizSpec == WizInit /\ [][WizNext]_vars

-----------------------------------------------------------------------------
(* Startup (bot/run.py run_async, bot/app.py build_app): polling starts, then the
   background sweep reconciles the catalog into every known chat and schedules the
   chats' jobs while /start commands come in.  tasks holds the sweep's position, the
   position of each chat's _sync_one and _process_chat, and the _reschedule tasks
   that /start has created. *)

\* the chats the storage may know at startup
MaxKnownChats == 5
\* /start commands in a behaviour
MaxStarts == 1
\* calls of the sweep that raise in a behaviour
MaxFailures == 1
\* the chats /start comes from
StartChats == {1, 2}
\* asyncio.Semaphore(4)
SemaphoreSize == 4
\* the threads of the loop's default executor, which asyncio.to_thread runs in:
\* min(32, os.cpu_count() + 4), so 5 on one CPU
DefaultWorkers == 5

StartupChats == 1..MaxKnownChats
\* one system rule for each chat
StartupRuleIds == 1..MaxKnownChats

\* bot_data with bot_data["startup_scheduling_done"] = value
SetStartupSchedulingDone(B, value) ==
    [k \in DOMAIN B \cup {"startup_scheduling_done"} |->
       IF k = "startup_scheduling_done" THEN value ELSE B[k]]

\* variant: /start does not look at the flag
StartupSchedulingDone_always(B) == TRUE

\* bool(bot_data.get("startup_scheduling_done", True))
StartupSchedulingDone(B) ==
    IF "startup_scheduling_done" \in DOMAIN B THEN B.startup_scheduling_done ELSE TRUE

NoSweep == [sweep |-> "none",
            sync |-> [c \in StartupChats |-> "none"],
            proc |-> [c \in StartupChats |-> "none"],
            changed |-> [c \in StartupChats |-> FALSE],
            starts |-> {}]

startRest == <<inflight, pending, last, pret, sender, user_data, now>>

\* the chats of repo.get_all_chats()
get_all_chats(C) == {c \in DOMAIN C : C[c].exists}

Running(f) == {c \in DOMAIN f : f[c] = "running"}
Holding(f) == {c \in DOMAIN f : f[c] \in {"scheduling", "notice"}}

\* a call raises, or not
Outcome(raises) == IF raises THEN UseFire ELSE UNCHANGED budget

\* the sweep's finally: the flag is set whatever happened
SweepEnded(T) ==
    /\ tasks' = [T EXCEPT !.sweep = "ended"]
    /\ bot_data' = SetStartupSchedulingDone(bot_data, TRUE)

\* `_process_chat` of a chat is over; the sweep is over with the last one
ProcessDone(T) ==
    IF \A c \in StartupChats : T.proc[c] \in {"none", "done"}
    THEN SweepEnded(T)
    ELSE tasks' = T /\ UNCHANGED bot_data

\* app.updater.start_polling returns, the flag is set to False and the sweep's task
\* is created; no update is handled before that
StartPolling ==
    /\ tasks.sweep = "none"
    /\ tasks' = [tasks EXCEPT !.sweep = "created"]
    /\ bot_data' = SetStartupSchedulingDone(bot_data, FALSE)
    /\ pcall' = [fn |-> "start_polling"]
    /\ UNCHANGED <<chats, rules, rule_seq, gen, timers, budget, startRest>>

\* _startup_sync_and_schedule starts: it reads the chats (which may raise), returns at
\* once when there are none, and else starts a _sync_one for each: with an empty
\* catalog these return at once and the _process_chat of each chat is started
SweepBegins(raises) ==
    LET known == get_all_chats(chats)
    IN  /\ tasks.sweep = "created"
        /\ IF raises \/ known = {} THEN SweepEnded(tasks)
           ELSE /\ UNCHANGED bot_data
                /\ IF bot_data.system_rules = <<>>
                   THEN tasks' = [tasks EXCEPT
                                    !.sweep = "process",
                                    !.proc = [c \in StartupChats |->
                                                IF c \in known THEN "queued" ELSE "none"]]
                   ELSE tasks' = [tasks EXCEPT
                                    !.sweep = "sync",
                                    !.sync = [c \in StartupChats |->
                                                IF c \in known THEN "queued" ELSE "none"]]
        /\ Outcome(raises)
        /\ pcall' = [fn |-> "_startup_sync_and_schedule"]
        /\ UNCHANGED <<chats, rules, rule_seq, gen, timers, startRest>>

\* a thread of the executor takes the sync_system_rules_for_chat of a chat
SyncStarts(c) ==
    /\ tasks.sweep = "sync"
    /\ tasks.sync[c] = "queued"
    /\ Cardinality(Running(tasks.sync)) < DefaultWorkers
    /\ tasks' = [tasks EXCEPT !.sync[c] = "running"]
    /\ pcall' = [fn |-> "_sync_one"]
    /\ UNCHANGED <<chats, rules, rule_seq, gen, timers, budget, bot_data, startRest>>

\* the thread is done, or has raised; after the last one the _process_chat of each
\* chat is started
SyncEnds(c, raises) ==
    LET res == sync_system_rules_for_chat(Db, c, bot_data.system_rules)
        T == [tasks EXCEPT !.sync[c] = "done",
                           !.changed[c] = ~raises /\ (res.added # <<>> \/ res.removed # <<>>)]
    IN  /\ tasks.sweep = "sync"
        /\ tasks.sync[c] = "running"
        /\ IF raises THEN UNCHANGED <<chats, rules, rule_seq>> ELSE DbCommit(res.D)
        /\ IF \A d \in StartupChats : T.sync[d] \in {"none", "done"}
           THEN tasks' = [T EXCEPT !.sweep = "process",
                                   !.proc = [d \in StartupChats |->
                                               IF T.sync[d] = "done" THEN "queued" ELSE "none"]]
           ELSE tasks' = T
        /\ Outcome(raises)
        /\ pcall' = [fn |-> "_sync_one"]
        /\ UNCHANGED <<gen, timers, bot_data, startRest>>

\* `async with semaphore` lets a _process_chat in
ProcAcquires(c) ==
    /\ tasks.sweep = "process"
    /\ tasks.proc[c] = "queued"
    /\ Cardinality(Holding(tasks.proc)) < SemaphoreSize
    /\ tasks' = [tasks EXCEPT !.proc[c] = "scheduling"]
    /\ pcall' = [fn |-> "_process_chat"]
    /\ UNCHANGED <<chats, rules, rule_seq, gen, timers, budget, bot_data, startRest>>

\* reschedule_chat_jobs of the chat returns or raises; a chat whose reconciliation
\* added or removed a rule is then sent the notice
ProcSchedules(c, raises) ==
    /\ tasks.sweep = "process"
    /\ tasks.proc[c] = "scheduling"
    /\ IF raises THEN UNCHANGED <<chats, rules, gen, timers, now>>
       ELSE Commit(reschedule_chat_jobs(Cur, c))
    /\ IF tasks.changed[c]
       THEN tasks' = [tasks EXCEPT !.proc[c] = "notice"] /\ UNCHANGED bot_data
       ELSE ProcessDone([tasks EXCEPT !.proc[c] = "done"])
    /\ Outcome(raises)
    /\ pcall' = [fn |-> "_process_chat"]
    /\ UNCHANGED <<rule_seq, inflight, pending, last, pret, sender, user_data>>

\* the notice is sent, or sending it has failed
ProcNotice(c) ==
    /\ tasks.sweep = "process"
    /\ tasks.proc[c] = "notice"
    /\ ProcessDone([tasks EXCEPT !.proc[c] = "done"])
    /\ pcall' = [fn |-> "_process_chat"]
    /\ UNCHANGED <<chats, rules, rule_seq, gen, timers, budget, startRest>>

\* /start in a one-to-one chat: the chat's row, the catalog, the reply, and, if
\* startup scheduling is done, the _reschedule task
cmd_start(c, reply_ok) ==
    LET D == HandlerBefore("cmd_start", Db, c, bot_data.system_rules)
        creates == reply_ok /\ StartupSchedulingDone(bot_data)
    IN  /\ tasks.sweep # "none"
        /\ UseAdmin
        /\ DbCommit(D)
        /\ tasks' = [tasks EXCEPT !.starts = IF creates THEN @ \cup {c} ELSE @]
        /\ pcall' = [fn |-> "cmd_start", sweep |-> tasks.sweep, replied |-> reply_ok]
        /\ UNCHANGED <<gen, timers, bot_data, startRest>>

\* the _reschedule task of a /start runs
StartReschedules(c) ==
    /\ c \in tasks.starts
    /\ Commit(reschedule_chat_jobs(Cur, c))
    /\ tasks' = [tasks EXCEPT !.starts = @ \ {c}]
    /\ pcall' = [fn |-> "_reschedule"]
    /\ UNCHANGED <<rule_seq, budget, bot_data, inflight, pending, last, pret, sender,
                   user_data>>

\* the storage an earlier run has left: no chat, or every chat, the first of them with
\* the catalog's rule; the catalog of this run is loaded or has failed to load
StartupInit ==
    \E known \in {{}, StartupChats}, system_rules \in {<<>>, AdminCatalog} :
       LET C == [c \in StartupChats |->
                   IF c \in known
                   THEN [exists |-> TRUE, enabled |-> TRUE, timezone |-> "Europe/Moscow",
                         image_file_id |-> "", include_meta |-> TRUE]
                   ELSE NoChat]
           D0 == [chats |-> C, rules |-> [r \in StartupRuleIds |-> NoRule], rule_seq |-> 0,
                  now |-> StartTs - 60]
           D == IF known = {} THEN D0 ELSE sync_system_rules_for_chat(D0, 1, AdminCatalog).D
       IN  /\ chats = D.chats
           /\ rules = D.rules
           /\ rule_seq = D.rule_seq
           /\ bot_data = [system_rules |-> system_rules]
    /\ gen = <<>>
    /\ timers = {}
    /\ inflight = {}
    /\ pending = {}
    /\ now = StartTs
    /\ budget = [admin |-> MaxStarts, fire |-> MaxFailures]
    /\ last = AdminEv("init", 0, 0)
    /\ tasks = NoSweep
    /\ CallIdle /\ SenderIdle /\ FlowIdle

StartupNext ==
    \/ StartPolling
    \/ \E raises \in BOOLEAN : SweepBegins(raises)
    \/ \E c \in StartupChats : SyncStarts(c)
    \/ \E c \in StartupChats, raises \in BOOLEAN : SyncEnds(c, raises)
    \/ \E c \in StartupChats : ProcAcquires(c)
    \/ \E c \in StartupChats, raises \in BOOLEAN : ProcSchedules(c, raises)
    \/ \E c \in StartupChats : ProcNotice(c)
    \/ \E c \in StartChats, reply_ok \in BOOLEAN : cmd_start(c, reply_ok)
    \/ \E c \in StartChats : StartReschedules(c)

StartupSpec == StartupInit /\ [][StartupNext]_vars

-----------------------------------------------------------------------------
(* send_rule_notification (bot/scheduler.py): the header, the content and the
   platform calls that carry them.  A text is named by a string; TextLen gives
   the number of characters the name stands for. *)

\* the caption limit of a photo
CaptionLimit == 1024

\* the characters of the header lines other than the rule's name, and of the
\* line a test send puts first
HeaderBase == 100
TestLine == 30

\* the lengths of rule names tried: the header is short, leaves 24 characters
\* under the caption limit, is as long as the limit, is longer
NameLens == {1, 900, 924, 925}

\* the texts tried and their lengths; "L22" stands for a text of 22 characters
NotifyTexts == {"", " ", "T1", "a&b", "L22", "L23", "L1024", "L1025"}

TextLen(text) ==
    CASE text = "" -> 0
      [] text = " " -> 1
      [] text = "T1" -> 2
      [] text = "a&b" -> 3
      [] text = "a&amp;b" -> 7
      [] text = "L22" -> 22
      [] text = "L23" -> 23
      [] text = "L1024" -> 1024
      [] text = "L1025" -> 1025

\* html.escape: & becomes &amp;
escape(text) == IF text = "a&b" THEN "a&amp;b" ELSE text

\* a composed text: header characters (0: no header) and a body ("": no body),
\* with a blank line between them when both are there
Composed(header, body) == [header |-> header, body |-> body]

ComposedLen(text) ==
    IF text.header > 0 /\ text.body # ""
    THEN text.header + 2 + TextLen(text.body)
    ELSE text.header + TextLen(text.body)

\* `header`: "\n".join(lines) when include_meta, else ""
HeaderOf(include_meta, is_test, name_len) ==
    IF include_meta
    THEN HeaderBase + name_len + (IF is_test THEN TestLine ELSE 0)
    ELSE 0

\* variant: no fallback to the first text option
FirstTextFallback_none(include_meta, text, image_ref, text_options) == text

\* `if not include_meta and not text and not image_ref and text_options`
FirstTextFallback(include_meta, text, image_ref, text_options) ==
    IF ~include_meta /\ text = "" /\ image_ref = "" /\ text_options # <<>>
    THEN Strip(text_options[1].text) ELSE text

\* the content of a rule: its own text and image, for a system rule the pick
\* from its pools
ContentOf(a, rnd_image, rnd_text) ==
    IF a.is_system
    THEN LET picked == pick_system_content(a.text_options, a.image_options,
                                           rnd_image, rnd_text)
         IN  [text |-> FirstTextFallback(a.include_meta, Strip(picked.text),
                                         picked.image_ref, a.text_options),
              image_ref |-> picked.image_ref,
              picked |-> picked]
    ELSE [text |-> Strip(a.message_text), image_ref |-> a.image_file_id,
          picked |-> PickedContent(<<>>, 0, <<>>, 0)]

send_photo(caption) == [fn |-> "send_photo", has_text |-> TRUE, text |-> caption]
send_photo_bare == [fn |-> "send_photo", has_text |-> FALSE, text |-> Composed(0, "")]
send_message(text) == [fn |-> "send_message", has_text |-> TRUE, text |-> text]

\* variant: a caption that does not fit is sent all the same
PhotoCalls_whole(header, body_html) == <<send_photo(Composed(header, body_html))>>

\* `if image_ref:` the calls that carry a photo
PhotoCalls(header, body_html) ==
    LET caption == Composed(header, body_html)
    IN  IF 0 < ComposedLen(caption) /\ ComposedLen(caption) <= CaptionLimit
        THEN <<send_photo(caption)>>
        ELSE <<IF header > 0 /\ header <= CaptionLimit
               THEN send_photo(Composed(header, ""))
               ELSE send_photo_bare>>
             \o (IF body_html # "" THEN <<send_message(Composed(0, body_html))>> ELSE <<>>)

\* send_rule_notification with every send successful: the content and the calls
send_rule_notification(a, rnd_image, rnd_text) ==
    LET header == HeaderOf(a.include_meta, a.is_test, a.name_len)
        content == ContentOf(a, rnd_image, rnd_text)
        body_html == escape(content.text)
    IN  [picked |-> content.picked,
         header |-> header,
         body_html |-> body_html,
         image_ref |-> content.image_ref,
         calls |-> IF content.image_ref # ""
                   THEN PhotoCalls(header, body_html)
                   ELSE <<send_message(Composed(header, body_html))>>]

\* the pools tried: text options that are blank or not, tied to image 10 or to
\* none; an image by file id or by the path of no file
NotifyTextLists ==
    UNION {{[i \in 1..n |-> [id |-> i, image_option_id |-> f[i][1], text |-> f[i][2],
                             weight |-> 1]] :
               f \in [1..n -> {None, 10} \X {" ", "T1", "L23"}]} : n \in 0..MaxPool}

NotifyImageLists ==
    {<<>>, <<[id |-> 10, ref |-> "FILE_ID", ref_type |-> "file_id", weight |-> 1]>>,
     <<[id |-> 10, ref |-> "gone.jpg", ref_type |-> "path", weight |-> 1]>>}

\* the arguments tried: a chat's settings, a rule of the administrators or a
\* system rule with its pools
NotifyArgs ==
    {[fn |-> "none", include_meta |-> m, is_test |-> t, name_len |-> n, is_system |-> FALSE,
      message_text |-> x, image_file_id |-> i, text_options |-> <<>>, image_options |-> <<>>] :
        m \in BOOLEAN, t \in BOOLEAN, n \in NameLens, x \in NotifyTexts, i \in {"", "FILE_ID"}}
    \cup
    {[fn |-> "none", include_meta |-> m, is_test |-> t, name_len |-> n, is_system |-> TRUE,
      message_text |-> "", image_file_id |-> "", text_options |-> x, image_options |-> i] :
        m \in BOOLEAN, t \in BOOLEAN, n \in NameLens, x \in NotifyTextLists,
        i \in NotifyImageLists}

CallSendRuleNotification ==
    /\ "include_meta" \in DOMAIN pcall
    /\ \E rnd_image \in 0..(RandomSteps - 1), rnd_text \in 0..(RandomSteps - 1) :
          pret' = send_rule_notification(pcall, rnd_image, rnd_text)
    /\ pcall' = [pcall EXCEPT !.fn = "send_rule_notification"]
    /\ UNCHANGED pickRest

NotifyInit ==
    /\ SchedIdle /\ gen = <<>> /\ SenderIdle /\ FlowIdle /\ BotIdle
    /\ pret = 0
    /\ pcall \in NotifyArgs

NotifyNext == CallSendRuleNotification

NotifySpec == NotifyInit /\ [][NotifyNext]_vars

-----------------------------------------------------------------------------
(* The administrator check's cache at its full size (bot/handlers/utils.py).
   The dict is the sequence of its entries in insertion order. *)

\* check_admin_in_groups runs in a behaviour, and steps of the clock
MaxChecks == 2
MaxCacheTicks == 2
CacheTickS == 60

CacheRuns == 1..MaxChecks

\* `cache.get(cache_key)`: the position of the key's entry, 0 when it has none
Position(entries, key) ==
    IF \E i \in 1..Len(entries) : entries[i].key = key
    THEN CHOOSE i \in 1..Len(entries) : entries[i].key = key
    ELSE 0

\* `cache.pop(cache_key, None)`
Popped(entries, key) ==
    LET other(e) == e.key # key
    IN  SelectSeq(entries, other)

\* `cache[cache_key] = (allowed, expires_at)`: a key the dict has keeps its place
Assigned(entries, key, allowed, expires_at) ==
    LET entry == [key |-> key, allowed |-> allowed, expires_at |-> expires_at]
        i == Position(entries, key)
    IN  IF i = 0 THEN Append(entries, entry) ELSE [entries EXCEPT ![i] = entry]

\* variant: the trimming drops the newest entries
_cleanup_entries_newest(entries, now_ts) ==
    LET unexpired(e) == e.expires_at > now_ts
        kept == SelectSeq(entries, unexpired)
    IN  IF Len(kept) > ADMIN_CHECK_CACHE_MAX_SIZE
        THEN SubSeq(kept, 1, ADMIN_CHECK_CACHE_MAX_SIZE)
        ELSE kept

\* _cleanup_admin_check_cache on the ordered dict: the expired entries go, then
\* the oldest while there are more than ADMIN_CHECK_CACHE_MAX_SIZE
_cleanup_entries(entries, now_ts) ==
    LET unexpired(e) == e.expires_at > now_ts
        kept == SelectSeq(entries, unexpired)
    IN  IF Len(kept) > ADMIN_CHECK_CACHE_MAX_SIZE
        THEN SubSeq(kept, Len(kept) - ADMIN_CHECK_CACHE_MAX_SIZE + 1, Len(kept))
        ELSE kept

CleanedWhenTooBig(entries, now_ts) ==
    IF Len(entries) > ADMIN_CHECK_CACHE_MAX_SIZE THEN _cleanup_entries(entries, now_ts)
    ELSE entries

\* a run of check_admin_in_groups in a group: not started, at a query, returned
NoCheck == [pc |-> "idle", key |-> <<0, 0>>, now_ts |-> 0, attempt |-> 0, queried |-> FALSE,
            allowed |-> FALSE, ok |-> FALSE, expires_at |-> 0]

cacheRest == <<chats, rules, gen, timers, inflight, pending, budget, last, pcall, pret, sender,
               user_data, rule_seq>>

\* check_admin_in_groups up to its first query, or to the verdict it finds cached
CacheCheckStart(run, key) ==
    LET cache1 == CleanedWhenTooBig(bot_data.admin_check_cache, now)
        i == Position(cache1, key)
    IN  /\ tasks[run].pc = "idle"
        /\ IF i # 0 /\ cache1[i].expires_at > now
           THEN /\ bot_data' = [bot_data EXCEPT !.admin_check_cache = cache1]
                /\ tasks' = [tasks EXCEPT ![run] =
                               [NoCheck EXCEPT !.pc = "returned", !.key = key, !.now_ts = now,
                                               !.allowed = cache1[i].allowed, !.ok = TRUE,
                                               !.expires_at = cache1[i].expires_at]]
           ELSE /\ bot_data' = [bot_data EXCEPT !.admin_check_cache = Popped(cache1, key)]
                /\ tasks' = [tasks EXCEPT ![run] =
                               [NoCheck EXCEPT !.pc = "query", !.key = key, !.now_ts = now]]
        /\ UNCHANGED <<now, cacheRest>>

\* get_chat_member returned: the verdict is stored, the dict cleaned when too big
CacheQueryReturns(run, status) ==
    LET t == tasks[run]
        allowed == status \in {"administrator", "creator"}
        cache1 == Assigned(bot_data.admin_check_cache, t.key, allowed,
                         t.now_ts + ADMIN_CHECK_CACHE_TTL_S)
    IN  /\ t.pc = "query"
        /\ bot_data' = [bot_data EXCEPT
                          !.admin_check_cache = CleanedWhenTooBig(cache1, t.now_ts)]
        /\ tasks' = [tasks EXCEPT ![run] =
                       [t EXCEPT !.pc = "returned", !.attempt = @ + 1, !.queried = TRUE,
                                 !.allowed = allowed, !.ok = TRUE]]
        /\ UNCHANGED <<now, cacheRest>>

\* get_chat_member raised: (False, False) after max_attempts
CacheQueryRaises(run) ==
    LET t == tasks[run]
    IN  /\ t.pc = "query"
        /\ tasks' = [tasks EXCEPT ![run] =
                       [t EXCEPT !.pc = IF t.attempt + 1 >= max_attempts
                                        THEN "returned" ELSE "query",
                                 !.attempt = @ + 1, !.queried = TRUE]]
        /\ UNCHANGED <<now, bot_data, cacheRest>>

CacheTick ==
    /\ now < StartTs + MaxCacheTicks * CacheTickS
    /\ now' = now + CacheTickS
    /\ UNCHANGED <<bot_data, tasks, cacheRest>>

\* the dict after many checks: user 10's verdict first, then those of n other
\* users, all expired, none expired, or every other one expired
FilledCache(n, expiry) ==
    [i \in 1..n |->
        [key |-> IF i = 1 THEN <<1, 10>> ELSE <<1, 100 + i>>,
         allowed |-> TRUE,
         expires_at |-> CASE expiry = "expired" -> StartTs
                          [] expiry = "fresh" -> StartTs + CacheTickS
                          [] expiry = "mixed" -> IF i % 2 = 1 THEN StartTs + CacheTickS
                                                 ELSE StartTs]]

CacheInit ==
    /\ SchedIdle /\ gen = <<>> /\ CallIdle /\ SenderIdle /\ FlowIdle
    /\ \/ \E expiry \in {"expired", "fresh", "mixed"} :
             bot_data = [admin_check_cache |-> FilledCache(ADMIN_CHECK_CACHE_MAX_SIZE, expiry)]
       \/ bot_data = [admin_check_cache |-> FilledCache(ADMIN_CHECK_CACHE_MAX_SIZE - 1, "fresh")]
    /\ tasks = [run \in CacheRuns |-> NoCheck]

CacheNext ==
    \/ \E run \in CacheRuns, u \in AdminUsers : CacheCheckStart(run, <<1, u>>)
    \/ \E run \in CacheRuns, status \in {"administrator", "member"} :
          CacheQueryReturns(run, status)
    \/ \E run \in CacheRuns : CacheQueryRaises(run)
    \/ CacheTick

CacheSpec == CacheInit /\ [][CacheNext]_vars

-----------------------------------------------------------------------------
(* The edit of an interval (bot/handlers/messages.py on_text, stage
   await_edit_rule_interval) beside the scheduler.  tasks holds the edits that
   are between their reply and their reschedule_rule_job. *)

\* on_text: set_rule_interval_minutes and clear_flow, up to `await _safe_reply`
EditIntervalStore(c, r) ==
    /\ get_rule(rules, c, r).exists /\ rules[r].kind = "interval"
    /\ UseAdmin
    /\ chats' = upsert_chat(chats, c)
    /\ rules' = set_rule_interval_minutes(rules, c, r, EditedMinutes)
    /\ tasks' = tasks \cup {<<c, r>>}
    /\ last' = AdminEv("set_rule_interval_minutes", c, r)
    /\ UNCHANGED <<gen, timers, inflight, pending, now, pcall, pret, sender, user_data,
                   rule_seq, bot_data>>

\* on_text: from its `await reschedule_rule_job`
EditIntervalReschedule(c, r) ==
    /\ <<c, r>> \in tasks
    /\ Commit(reschedule_rule_job(Cur, c, r))
    /\ tasks' = tasks \ {<<c, r>>}
    /\ last' = AdminEv("reschedule_rule_job", c, r)
    /\ UNCHANGED <<inflight, pending, budget, pcall, pret, sender, user_data, rule_seq,
                   bot_data>>

\* the program after its startup sweep, no edit under way
EditInit ==
    /\ chats = Started.chats
    /\ rules = Started.rules
    /\ gen = Started.gen
    /\ timers = Started.timers
    /\ now = Started.now
    /\ inflight = {}
    /\ pending = {}
    /\ budget = [admin |-> MaxAdmin, fire |-> MaxFire]
    /\ last = AdminEv("init", 0, 0)
    /\ rule_seq = Cardinality(RuleIds)
    /\ CallIdle /\ SenderIdle /\ FlowIdle
    /\ bot_data = <<>>
    /\ tasks = {}

EditNext ==
    \/ Next
    \/ \E c \in KnownChats, r \in RuleIds : EditIntervalStore(c, r)
    \/ \E c \in ChatIds, r \in RuleIds : EditIntervalReschedule(c, r)

EditSpec == EditInit /\ [][EditNext]_vars

-----------------------------------------------------------------------------
(* Firings of two rules of one chat *)

\* firings in a behaviour
MaxFirings == 2

\* storage as an earlier run left it: chat 1 with settings of its own (another
\* timezone, no header) and two interval rules created together
TwoRulesState ==
    [chats |-> [BootState.chats EXCEPT ![1] = [@ EXCEPT !.timezone = "Asia/Tokyo",
                                                        !.include_meta = FALSE]],
     rules |-> [BootState.rules EXCEPT ![2] = [BootState.rules[1] EXCEPT !.id = 2]],
     gen |-> BootState.gen,
     timers |-> BootState.timers,
     now |-> BootState.now]

TwoRulesInit ==
    /\ chats = reschedule_chat_jobs(TwoRulesState, 1).chats
    /\ rules = reschedule_chat_jobs(TwoRulesState, 1).rules
    /\ gen = reschedule_chat_jobs(TwoRulesState, 1).gen
    /\ timers = reschedule_chat_jobs(TwoRulesState, 1).timers
    /\ now = TwoRulesState.now
    /\ inflight = {}
    /\ pending = {}
    /\ budget = [admin |-> 0, fire |-> MaxFirings]
    /\ last = AdminEv("init", 0, 0)
    /\ rule_seq = Cardinality(RuleIds)
    /\ CallIdle /\ SenderIdle /\ FlowIdle /\ BotIdle

TwoRulesNext ==
    \/ Tick
    \/ \E t \in timers : JobStart(t)
    \/ \E f \in inflight : SendOk(f)
    \/ \E f \in inflight : SendError(f)
    \/ \E f \in inflight : SendChatMigrated(f)
    \/ \E f \in inflight : SendChatMigratedNoId(f)

TwoRulesSpec == TwoRulesInit /\ [][TwoRulesNext]_vars

-----------------------------------------------------------------------------
(* A reconciliation in a worker thread beside the handlers (bot/run.py _sync_one,
   bot/db/repo.py).  Each repo call opens a connection of its own; the SELECT of
   ensure_system_rule_* runs outside a transaction, its UPDATEs up to the commit
   are one transaction.  tasks is the pass: its chat, its catalog, the index of
   the entry it is at, its phase and the row it selected (sel). *)

NoPass == [phase |-> "idle"]

NoSelection == [found |-> FALSE, rule_id |-> 0, user_customized |-> FALSE]

\* the SELECT of ensure_system_rule_*: the row's id and its user_customized
EnsureSelected(R, chat_id, system_key) ==
    LET found == SystemRows(R, chat_id, system_key)
    IN  IF found = {} THEN NoSelection
        ELSE LET rule_id == CHOOSE r \in found : TRUE
             IN  [found |-> TRUE, rule_id |-> rule_id,
                  user_customized |-> R[rule_id].user_customized]

\* the UPDATEs of ensure_system_rule_* for the row it selected (WHERE id = ? AND
\* chat_id = ?), with the user_customized it read
EnsureUpdated(R, chat_id, entry, sel, sort_order) ==
    IF ~get_rule(R, chat_id, sel.rule_id).exists THEN R
    ELSE LET row == R[sel.rule_id]
             refreshed == [row EXCEPT !.title = entry.title, !.is_system = TRUE,
                                      !.sort_order = sort_order,
                                      !.days = IF entry.kind = "weekly"
                                               THEN entry.schedule.days ELSE @]
             scheduled ==
                 IF sel.user_customized THEN refreshed
                 ELSE IF entry.kind = "weekly"
                      THEN [refreshed EXCEPT !.time_hhmm = entry.schedule.time_hhmm,
                                             !.enabled = entry.enabled_by_default]
                      ELSE [refreshed EXCEPT
                              !.interval_minutes = entry.schedule.interval_minutes,
                              !.enabled = entry.enabled_by_default]
         IN  [R EXCEPT ![sel.rule_id] = [scheduled EXCEPT !.images = entry.images]]

\* ensure_system_rule_* from its SELECT on: the UPDATEs, or the INSERT
EnsureWritten(D, chat_id, entry, sel, sort_order) ==
    IF sel.found
    THEN [D EXCEPT !.rules = EnsureUpdated(D.rules, chat_id, entry, sel, sort_order)]
    ELSE IF entry.kind = "weekly"
         THEN ensure_system_rule_weekly_inserting(D, chat_id, entry.system_key,
                  entry.title, entry.schedule.days, entry.schedule.time_hhmm,
                  entry.images, entry.enabled_by_default, sort_order)
         ELSE Insert(D, chat_id,
                     [InsertedSystemRule(D, chat_id, entry.system_key, entry.title,
                                         "interval", entry.enabled_by_default,
                                         sort_order, entry.images)
                        EXCEPT !.interval_minutes = entry.schedule.interval_minutes])

threadRest == <<gen, timers, inflight, pending, now, last, sender, user_data, bot_data>>

\* _sync_one starts sync_system_rules_for_chat in a thread, which cleans up first
SyncStart(chat_id, rules_) ==
    LET configured_keys == Keys(rules_) \ {""}
    IN  /\ tasks = NoPass
        /\ rules_ # <<>>
        /\ DbCommit(_cleanup_stale_system_rules(Db, chat_id, configured_keys).D)
        /\ tasks' = [phase |-> "select", chat_id |-> chat_id, rules |-> rules_,
                     idx |-> 0, sel |-> NoSelection]
        /\ UNCHANGED <<budget, pcall, pret, threadRest>>

\* the thread's upsert_chat and SELECT for the entry it is at
EnsureSelect ==
    /\ tasks.phase = "select"
    /\ tasks' = [tasks EXCEPT !.phase = "update",
                   !.sel = EnsureSelected(rules, tasks.chat_id,
                                          tasks.rules[tasks.idx + 1].system_key)]
    /\ chats' = upsert_chat(chats, tasks.chat_id)
    /\ pcall' = [fn |-> "ensure_system_rule", chat_id |-> tasks.chat_id,
                 rule_id |-> tasks'.sel.rule_id]
    /\ pret' = 0
    /\ UNCHANGED <<rules, rule_seq, budget, threadRest>>

\* the thread's writes for that entry and their commit; the pass goes on to the
\* next entry or returns
EnsureUpdate ==
    LET entry == tasks.rules[tasks.idx + 1]
        D == EnsureWritten(Db, tasks.chat_id, entry, tasks.sel, tasks.idx)
    IN  /\ tasks.phase = "update"
        /\ D.rule_seq <= MaxRuleId
        /\ DbCommit(D)
        /\ tasks' = [tasks EXCEPT !.idx = @ + 1,
                                  !.phase = IF tasks.idx + 1 < Len(tasks.rules)
                                            THEN "select" ELSE "done",
                                  !.sel = NoSelection]
        /\ UNCHANGED <<budget, pcall, pret, threadRest>>

\* storage as an earlier run's reconciliation with some catalog left it
ThreadInit ==
    /\ \E k \in Catalogs \ {<<>>} :
          LET D == sync_system_rules_for_chat(
                       [chats |-> [c \in ChatIds |-> NoChat],
                        rules |-> [r \in DbRuleIds |-> NoRule],
                        rule_seq |-> 0, now |-> StartTs - 60], 1, k).D
          IN  chats = D.chats /\ rules = D.rules /\ rule_seq = D.rule_seq
    /\ gen = <<>>
    /\ timers = {}
    /\ inflight = {}
    /\ pending = {}
    /\ now = StartTs
    /\ budget = [admin |-> MaxEdits, fire |-> 0]
    /\ last = AdminEv("init", 0, 0)
    /\ CallIdle /\ SenderIdle /\ FlowIdle
    /\ bot_data = <<>>
    /\ tasks = NoPass

ThreadNext ==
    \/ \E k \in Catalogs : SyncStart(1, k)
    \/ EnsureSelect
    \/ EnsureUpdate
    \/ \E r \in DbRuleIds : EditRuleTime(1, r)
    \/ \E r \in DbRuleIds : EditRuleInterval(1, r)
    \/ \E r \in DbRuleIds : EditRuleEnabled(1, r)

ThreadSpec == ThreadInit /\ [][ThreadNext]_vars

-----------------------------------------------------------------------------
(* A weekly rule whose time_hhmm is no hour:minute (bot/scheduler.py
   _schedule_rule_job, bot/system/config_loader.py _validate_schedule, which takes
   any string with a colon in it) *)

\* map(int, str(time_hhmm).split(":")) for the strings of the model: the numbers,
\* or <<>> where int() raises ValueError
TimeParts(time_hhmm) ==
    CASE time_hhmm = "09:00" -> <<9, 0>>
      [] time_hhmm = "10:00" -> <<10, 0>>
      [] time_hhmm = "12:30" -> <<12, 30>>
      [] time_hhmm = "25:00" -> <<25, 0>>
      [] time_hhmm = "1:2:3" -> <<1, 2, 3>>
      [] OTHER -> <<>>

\* _schedule_rule_job raises: `hh, mm = map(int, ...)` or time(hour=hh, minute=mm) does
_schedule_rule_job_raises(rule) ==
    /\ rule.kind = "weekly"
    /\ LET parts == TimeParts(rule.time_hhmm)
       IN  \/ Len(parts) # 2
           \/ parts[1] \notin 0..23
           \/ parts[2] \notin 0..59

\* COALESCE(sort_order, 999999)
SortKey(row) == IF row.sort_order < 0 THEN 999999 ELSE row.sort_order

\* row x comes before row y in get_rules: ORDER BY COALESCE(sort_order, 999999), id
ComesBefore(R, x, y) ==
    \/ SortKey(R[x]) < SortKey(R[y])
    \/ SortKey(R[x]) = SortKey(R[y]) /\ x < y

\* the ids of get_rules' rows in its order
RECURSIVE RulesInOrder(_, _)
RulesInOrder(R, ids) ==
    IF ids = {} THEN <<>>
    ELSE LET m == CHOOSE x \in ids : \A y \in ids \ {x} : ComesBefore(R, x, y)
         IN  <<m>> \o RulesInOrder(R, ids \ {m})

\* `for r in rules: if r["enabled"]: _schedule_rule_job(...)` in get_rules' order;
\* the exception of a rule leaves the loop after that rule's generation was bumped
RECURSIVE ScheduleUntilRaise(_, _, _)
ScheduleUntilRaise(S, chat_id, order) ==
    IF order = <<>> THEN S
    ELSE LET rule == S.rules[Head(order)]
         IN  IF ~rule.enabled THEN ScheduleUntilRaise(S, chat_id, Tail(order))
             ELSE IF _schedule_rule_job_raises(rule)
             THEN [S EXCEPT !.gen = _bump_rule_generation(S.gen, chat_id, rule.id,
                                                          JOB_KIND_RULE)]
             ELSE ScheduleUntilRaise(_schedule_rule_job(S, chat_id, rule), chat_id,
                                     Tail(order))

\* reschedule_chat_jobs with the rules in get_rules' order and the exception of
\* _schedule_rule_job, which its callers log
reschedule_chat_jobs_in_order(S, chat_id) ==
    LET S0 == [S EXCEPT !.chats = upsert_chat(S.chats, chat_id)]
        rule_ids == get_rules(S0.rules, chat_id)
        S1 == MarkSuperseded(_remove_chat_jobs_by_rule_ids(S0, rule_ids), rule_ids)
    IN  IF ~S1.chats[chat_id].enabled THEN S1
        ELSE ScheduleUntilRaise(S1, chat_id, RulesInOrder(S1.rules, rule_ids))

\* the entries of the catalogs: a weekly rule, an interval rule and a weekly rule
\* whose time_hhmm the loader accepts though it is no time
BadTimeRules ==
    {WeeklyEntry("feed", "Feed", {0, 2}, "09:00", TRUE),
     IntervalEntry("water", "Water", 60, TRUE),
     WeeklyEntry("nap", "Nap", {1}, "9:xx", TRUE),
     WeeklyEntry("nap", "Nap", {1}, "25:00", TRUE),
     WeeklyEntry("nap", "Nap", {1}, "1:2:3", TRUE)}

BadTimeCatalogs ==
    {k \in UNION {[1..n -> BadTimeRules] : n \in 2..MaxRuleId} :
        Cardinality(Keys(k)) = Len(k)}

\* _process_chat of the startup sweep and _reschedule of /start: reschedule_chat_jobs
StartChat(c) ==
    /\ UseAdmin
    /\ Commit(reschedule_chat_jobs_in_order(Cur, c))
    /\ last' = AdminEv("reschedule_chat_jobs", c, 0)
    /\ UNCHANGED <<inflight, pending>>
    /\ UNCHANGED callVars

\* on_callback "toggle_chat", from its `await reschedule_chat_jobs`
ToggleChatRescheduleInOrder(c) ==
    /\ c \in pending
    /\ Commit(reschedule_chat_jobs_in_order(Cur, c))
    /\ pending' = pending \ {c}
    /\ last' = AdminEv("reschedule_chat_jobs", c, 0)
    /\ UNCHANGED <<inflight, budget>>
    /\ UNCHANGED callVars

\* storage as the reconciliation with a catalog left it, before a timer is armed
BadTimeInit ==
    /\ \E k \in BadTimeCatalogs :
          LET D == sync_system_rules_for_chat(
                       [chats |-> [c \in ChatIds |-> NoChat],
                        rules |-> [r \in DbRuleIds |-> NoRule],
                        rule_seq |-> 0, now |-> StartTs - 60], 1, k).D
          IN  chats = D.chats /\ rules = D.rules /\ rule_seq = D.rule_seq
    /\ gen = <<>>
    /\ timers = {}
    /\ inflight = {}
    /\ pending = {}
    /\ now = StartTs
    /\ budget = [admin |-> MaxAdmin, fire |-> MaxFire]
    /\ last = AdminEv("init", 0, 0)
    /\ CallIdle /\ SenderIdle /\ FlowIdle /\ BotIdle

BadTimeNext ==
    \/ Tick
    \/ StartChat(1)
    \/ ToggleChat(1)
    \/ ToggleChatRescheduleInOrder(1)

BadTimeSpec == BadTimeInit /\ [][BadTimeNext]_vars

-----------------------------------------------------------------------------
(* A catalog whose entry changes its kind between two releases of the YAML file
   (bot/system/sync.py, bot/db/repo.py) *)

\* the entries of the catalogs: each key as a weekly and as an interval rule
KindRules ==
    {WeeklyEntry("feed", "Feed", {0, 2}, "09:00", TRUE),
     IntervalEntry("feed", "Feed", 60, TRUE),
     WeeklyEntry("water", "Water", {1}, "10:00", TRUE),
     IntervalEntry("water", "Water", 60, TRUE)}

KindCatalogs ==
    {k \in UNION {[1..n -> KindRules] : n \in 1..MaxCatalog} :
        Cardinality(Keys(k)) = Len(k)}

KindNext ==
    \/ \E k \in KindCatalogs : CallSync(1, k)
    \/ \E r \in DbRuleIds : EditRuleEnabled(1, r)

KindSpec == DbInit /\ [][KindNext]_vars

-----------------------------------------------------------------------------
(* A firing whose send runs TelegramSender._call_with_retries with the configured
   retry_attempts (bot/scheduler.py send_notification_job, bot/notify/sender.py,
   bot/config.py: int(os.getenv("BOT_API_RETRY_ATTEMPTS", "4")), no lower bound) *)

\* the largest BOT_API_RETRY_ATTEMPTS of the runs; the smallest is -1
MaxSendAttempts == 2
RetryAttemptsValues == -1..MaxSendAttempts

\* the sender's call has returned normally after a platform call that succeeded
Delivered(s) == \E i \in 1..Len(s.calls) : s.calls[i] = "ok"

sendRest == <<chats, rules, gen, timers, inflight, pending, now, budget, last, user_data,
              rule_seq, bot_data, tasks>>

\* send_notification_job reaches `await send_rule_notification`: the sender starts
\* with app.bot_data["send_options"]
FiringSends(f) ==
    /\ sender.pc = "idle"
    /\ sender' = SenderStart(bot_data.send_options.retry_attempts)
    /\ pcall' = [fn |-> "send_rule_notification", chat_id |-> f.chat_id,
                 rule_id |-> f.rule_id]
    /\ UNCHANGED <<pret, sendRest>>

\* the sender's call of this firing is over
SendOver(f) ==
    /\ sender.pc = "done"
    /\ pcall.fn = "send_rule_notification"
    /\ pcall.chat_id = f.chat_id
    /\ pcall.rule_id = f.rule_id

\* send_rule_notification returned: the success path of send_notification_job
FiringSent(f) ==
    /\ SendOver(f)
    /\ sender.raised = "none"
    /\ Commit(on_success(Cur, f))
    /\ inflight' = inflight \ {f}
    /\ last' = JobEv("ok", f)
    /\ pret' = [delivered |-> Delivered(sender), calls |-> sender.calls]
    /\ sender' = [pc |-> "idle"]
    /\ UNCHANGED <<pending, budget, pcall, user_data, rule_seq, bot_data, tasks>>

\* send_rule_notification raised: `except Exception` and the failure handling
FiringFailed(f) ==
    /\ SendOver(f)
    /\ sender.raised # "none"
    /\ Commit(on_failure(Cur, f))
    /\ inflight' = inflight \ {f}
    /\ last' = JobEv("error", f)
    /\ pret' = [delivered |-> FALSE, calls |-> sender.calls]
    /\ sender' = [pc |-> "idle"]
    /\ UNCHANGED <<pending, budget, pcall, user_data, rule_seq, bot_data, tasks>>

\* the timers of chat 1 armed, and a configuration with some retry_attempts
RetryConfigInit ==
    /\ chats = Started.chats
    /\ rules = Started.rules
    /\ gen = Started.gen
    /\ timers = Started.timers
    /\ now = Started.now
    /\ inflight = {}
    /\ pending = {}
    /\ budget = [admin |-> 0, fire |-> MaxFirings]
    /\ last = AdminEv("init", 0, 0)
    /\ rule_seq = Cardinality(RuleIds)
    /\ CallIdle /\ SenderIdle /\ FlowIdle
    /\ \E n \in RetryAttemptsValues : bot_data = [send_options |-> [retry_attempts |-> n]]
    /\ tasks = <<>>

RetryConfigNext ==
    \/ Tick
    \/ \E t \in timers : JobStart(t)
    \/ \E f \in inflight : FiringSends(f)
    \/ CallReturns
    \/ \E e \in TelegramErrors : CallRaises(e)
    \/ \E f \in inflight : FiringSent(f)
    \/ \E f \in inflight : FiringFailed(f)

RetryConfigSpec == RetryConfigInit /\ [][RetryConfigNext]_vars

-----------------------------------------------------------------------------
(* Properties of the wizard's per-user state *)

\* the stored value a lookup found under its own key, and what is stored there now
Looked == IF pcall.fn = "get_draft" THEN pcall.before.draft_rule
          ELSE pcall.before.awaiting_photo
LookedNow == IF pcall.fn = "get_draft" THEN user_data.draft_rule
             ELSE user_data.awaiting_photo
IsLookup == pcall.fn \in {"get_draft", "get_awaiting_photo"}
ActorDiffers == /\ pcall.actor_user_id # None
                /\ Looked.actor_user_id # 0
                /\ Looked.actor_user_id # pcall.actor_user_id

\* C11: draft expiry.  A lookup (get_draft or get_awaiting_photo) of a stored value
\* whose chat_id matches and whose expires_at_ts is positive and strictly less than
\* the current time returns absent and has removed the value from the session when
\* it returns; a value whose expires_at_ts is >= the current time is not expired:
\* the lookup leaves it stored, and returns it unless another actor asks.
C11_DraftExpiry ==
    (IsLookup /\ Looked.present /\ Looked.chat_id = pcall.chat_id) =>
        /\ (Looked.expires_at_ts > 0 /\ Looked.expires_at_ts < FlowNow) =>
              (pret = NoValue /\ ~LookedNow.present)
        /\ Looked.expires_at_ts >= FlowNow =>
              /\ LookedNow = Looked
              /\ ~ActorDiffers => pret = Looked

\* C11's case: an expired draft of the right chat was looked up by its own actor
C11_Witness ==
    /\ pcall.fn = "get_draft"
    /\ pcall.before.draft_rule.present
    /\ pcall.before.draft_rule.chat_id = pcall.chat_id
    /\ pcall.before.draft_rule.actor_user_id = pcall.actor_user_id
    /\ pcall.before.draft_rule.expires_at_ts = FlowNow - 1
    /\ pret = NoValue
    /\ ~user_data.draft_rule.present

\* C12: draft actor isolation.  A get_draft by an actor different from the non-zero
\* actor_user_id stored in the draft (chat_id matching, not expired) returns absent
\* and leaves the stored draft and the stored awaiting-photo state exactly as they
\* were; a draft whose stored actor is zero or absent is returned to any actor.
C12_ActorIsolation ==
    (/\ pcall.fn = "get_draft"
     /\ Looked.present
     /\ Looked.chat_id = pcall.chat_id
     /\ ~(Looked.expires_at_ts > 0 /\ Looked.expires_at_ts < FlowNow)) =>
        /\ ActorDiffers => (pret = NoValue /\ user_data = pcall.before)
        /\ Looked.actor_user_id = 0 => pret = Looked

\* C12's case: another actor asked for a live draft while a photo was awaited
C12_Witness ==
    /\ pcall.fn = "get_draft"
    /\ pcall.before.draft_rule.present
    /\ pcall.before.awaiting_photo.present
    /\ pcall.before.draft_rule.chat_id = pcall.chat_id
    /\ pcall.before.draft_rule.expires_at_ts = FlowNow + 1
    /\ pcall.before.draft_rule.actor_user_id = 10
    /\ pcall.actor_user_id = 11
    /\ pret = NoValue
    /\ user_data = pcall.before

-----------------------------------------------------------------------------
(* Properties of the storage and of the reconciliation *)

IsSync == pcall.fn = "sync_system_rules_for_chat"

\* the columns of a rule that a repeated reconciliation must leave alone
SameRule(a, b) ==
    /\ a.exists = b.exists /\ a.id = b.id /\ a.chat_id = b.chat_id
    /\ a.title = b.title /\ a.kind = b.kind
    /\ a.days = b.days /\ a.time_hhmm = b.time_hhmm
    /\ a.interval_minutes = b.interval_minutes
    /\ a.enabled = b.enabled /\ a.user_customized = b.user_customized
    /\ a.sort_order = b.sort_order

\* a step that reconciles the chat and the catalog that the step before reconciled
C13_Step ==
    (/\ IsSync
     /\ pcall'.fn = "sync_system_rules_for_chat"
     /\ pcall'.chat_id = pcall.chat_id
     /\ pcall'.rules = pcall.rules) =>
        /\ pret'.added = <<>>
        /\ pret'.removed = <<>>
        /\ \A r \in DOMAIN rules : SameRule(rules[r], rules'[r])

\* C13: reconciliation idempotence.  For every chat and every non-empty catalog,
\* running sync_system_rules_for_chat a second time with the same catalog and no
\* operation in between returns empty added and removed lists and leaves the set of
\* rules and each rule's title, kind, schedule fields, enabled flag, user_customized
\* flag and sort_order unchanged.
C13_Idempotence == [][C13_Step]_vars

\* C13's case: a second run over two system rules, one of them customized
C13_Witness ==
    /\ IsSync /\ pcall.again
    /\ Len(pcall.rules) = 2
    /\ Customized(rules, pcall.chat_id) # {}
    /\ pret = [added |-> <<>>, removed |-> <<>>]

\* a list without its i-th entry
Without(rules_, i) == SubSeq(rules_, 1, i - 1) \o SubSeq(rules_, i + 1, Len(rules_))

\* the step after a reconciliation reconciles the same chat with a catalog that
\* lost entry i: the entry's rule is deleted, its title alone is reported
C14_Removed ==
    \A i \in 1..MaxCatalog :
        (/\ IsSync
         /\ pcall'.fn = "sync_system_rules_for_chat"
         /\ pcall'.chat_id = pcall.chat_id
         /\ i <= Len(pcall.rules)
         /\ pcall'.rules = Without(pcall.rules, i)) =>
            /\ SystemRows(rules, pcall.chat_id, pcall.rules[i].system_key) # {}
            /\ SystemRows(rules', pcall.chat_id, pcall.rules[i].system_key) = {}
            /\ pret'.removed = <<pcall.rules[i].title>>

\* the step after a reconciliation reconciles the same chat with a catalog that
\* got entry i (back): a rule with a new id is created from the entry alone
C14_Added ==
    \A i \in 1..MaxCatalog :
        (/\ IsSync
         /\ pcall'.fn = "sync_system_rules_for_chat"
         /\ pcall'.chat_id = pcall.chat_id
         /\ i <= Len(pcall'.rules)
         /\ pcall.rules = Without(pcall'.rules, i)) =>
            LET e == pcall'.rules[i]
                made == SystemRows(rules', pcall.chat_id, e.system_key)
            IN  /\ pret'.added = <<e.title>>
                /\ Cardinality(made) = 1
                /\ \A r \in made :
                      /\ ~rules[r].exists /\ r > rule_seq
                      /\ ~rules'[r].user_customized
                      /\ rules'[r].enabled = e.enabled_by_default
                      /\ rules'[r].kind = e.kind
                      /\ rules'[r].days = e.schedule.days
                      /\ rules'[r].time_hhmm = e.schedule.time_hhmm
                      /\ rules'[r].interval_minutes = e.schedule.interval_minutes

\* C14: reconciliation diff.  If one entry is removed from the catalog between two
\* reconciliation runs of a chat, the next run deletes that system rule and reports
\* exactly that entry's title in removed, and nothing else; if the entry is then put
\* back, the run after that creates a new rule and reports its title in added, and
\* the new rule has user_customized false and the catalog's schedule and
\* enabled_by_default, whatever customization the deleted rule had.
C14_ReconciliationDiff == [][C14_Removed /\ C14_Added]_vars

\* C14's case: the entry of a customized rule was removed, then put back
C14_Witness ==
    /\ IsSync
    /\ pcall.recreated # {}
    /\ Len(pret.added) = 1
    /\ pret.removed = <<>>
    /\ \A k \in pcall.recreated :
          \E r \in SystemRows(rules, pcall.chat_id, k) : ~rules[r].user_customized

\* the step is an administrator's edit of the schedule or of the enabled flag of
\* system rule r, and the edit applies to the rule
EditOf(r) ==
    /\ rules[r].exists /\ rules[r].is_system
    /\ pcall'.chat_id = rules[r].chat_id
    /\ pcall'.fn \in {"set_rule_time_hhmm", "set_rule_interval_minutes", "toggle_rule_enabled"}
    /\ pcall'.rule_id = r
    /\ pcall'.fn = "set_rule_time_hhmm" => rules[r].kind = "weekly"
    /\ pcall'.fn = "set_rule_interval_minutes" => rules[r].kind = "interval"

\* the edit stores the administrator's value and marks the rule customized
C15_Edit ==
    \A r \in DOMAIN rules :
        EditOf(r) =>
            /\ rules'[r].user_customized
            /\ pcall'.fn = "set_rule_time_hhmm" => rules'[r].time_hhmm = EditedTime
            /\ pcall'.fn = "set_rule_interval_minutes" =>
                  rules'[r].interval_minutes = EditedMinutes
            /\ pcall'.fn = "toggle_rule_enabled" => rules'[r].enabled = ~rules[r].enabled

\* a customized rule stays customized for as long as it is stored
C15_Stays ==
    \A r \in DOMAIN rules :
        (rules[r].exists /\ rules[r].user_customized /\ rules'[r].exists) =>
            rules'[r].user_customized

\* a reconciliation whose catalog has the key of customized rule r at index i leaves
\* the administrator's values and refreshes title, sort_order and days
C15_Sync ==
    \A r \in DOMAIN rules :
        \A i \in 1..MaxCatalog :
            (/\ rules[r].exists /\ rules[r].is_system /\ rules[r].user_customized
             /\ pcall'.fn = "sync_system_rules_for_chat"
             /\ pcall'.chat_id = rules[r].chat_id
             /\ i <= Len(pcall'.rules)
             /\ pcall'.rules[i].system_key = rules[r].system_key) =>
                /\ rules'[r].exists
                /\ rules'[r].time_hhmm = rules[r].time_hhmm
                /\ rules'[r].interval_minutes = rules[r].interval_minutes
                /\ rules'[r].enabled = rules[r].enabled
                /\ rules'[r].title = pcall'.rules[i].title
                /\ rules'[r].sort_order = i - 1
                /\ rules[r].kind = "weekly" => rules'[r].days = pcall'.rules[i].schedule.days

\* C15: customization is preserved by reconciliation.  Once an administrator has
\* changed a system rule's time_hhmm or interval_minutes, or toggled its enabled flag
\* (which sets user_customized), every later reconciliation run with a catalog that
\* still contains the rule's system_key leaves the rule's time_hhmm, interval_minutes
\* and enabled flag at the administrator's values, while still refreshing title,
\* sort_order and, for weekly rules, days from the catalog.
C15_CustomizationPreserved == [][C15_Edit /\ C15_Stays /\ C15_Sync]_vars

\* C15's case: a run gave a customized weekly rule the title, position and days of
\* another release of the catalog and left it the administrator's time
C15_Witness ==
    /\ IsSync
    /\ \E i \in 1..Len(pcall.rules) :
          /\ pcall.rules[i].system_key \in pcall.retitled
          /\ \E r \in SystemRows(rules, pcall.chat_id, pcall.rules[i].system_key) :
                /\ rules[r].user_customized
                /\ rules[r].time_hhmm = EditedTime
                /\ rules[r].time_hhmm # pcall.rules[i].schedule.time_hhmm
                /\ rules[r].title = pcall.rules[i].title
                /\ rules[r].days = pcall.rules[i].schedule.days
                /\ rules[r].sort_order = i - 1

IsMigrate == pcall.fn = "migrate_chat_id"

\* the four settings of a row of chats
Settings(chat) == <<chat.enabled, chat.timezone, chat.image_file_id, chat.include_meta>>

\* the step migrates old_id to new_id
Migrates(old_id, new_id) ==
    /\ pcall'.fn = "migrate_chat_id"
    /\ pcall'.chat_id = old_id
    /\ pcall'.new_chat_id = new_id

C16_Step ==
    \A old_id \in ChatIds, new_id \in ChatIds :
        Migrates(old_id, new_id) =>
            /\ (old_id = new_id \/ ~chats[old_id].exists) =>
                  (chats' = chats /\ rules' = rules /\ rule_seq' = rule_seq)
            /\ (old_id # new_id /\ chats[old_id].exists /\ ~chats[new_id].exists) =>
                  /\ chats'[new_id].exists
                  /\ Settings(chats'[new_id]) = Settings(chats[old_id])
                  /\ ~chats'[old_id].exists
                  /\ \A r \in DOMAIN rules :
                        /\ (rules[r].exists /\ rules[r].chat_id = old_id) =>
                              rules'[r] = [rules[r] EXCEPT !.chat_id = new_id]
                        /\ ~(rules'[r].exists /\ rules'[r].chat_id = old_id)

\* C16: migrate_chat_id(old, new) with old # new, old having a row and new having
\* none: afterwards new has a row whose enabled, timezone, image_file_id and
\* include_meta equal old's previous values, every rule that belonged to old belongs
\* to new with its id, fields and option pools unchanged, no row and no rule remains
\* for old; and nothing is changed when old = new or when old has no row.
C16_MigrateToFreshChat == [][C16_Step]_vars

\* C16's case: a chat with rules and its meta line off moved to a chat without a row
C16_Witness ==
    /\ IsMigrate
    /\ ~pcall.had_new
    /\ pcall.moved # {}
    /\ chats[pcall.new_chat_id].exists
    /\ ~chats[pcall.new_chat_id].include_meta
    /\ ~chats[pcall.chat_id].exists
    /\ \A r \in pcall.moved : rules[r].exists /\ rules[r].chat_id = pcall.new_chat_id

\* the rows under old_id and under new_id that share a system_key before the step
Colliding(old_id, new_id) ==
    {p \in get_rules(rules, old_id) \X get_rules(rules, new_id) :
        /\ rules[p[1]].system_key # NoKey
        /\ rules[p[1]].system_key = rules[p[2]].system_key}

NoDuplicateKey(R) ==
    \A r1 \in DOMAIN R, r2 \in DOMAIN R :
        (/\ r1 # r2 /\ R[r1].exists /\ R[r2].exists
         /\ R[r1].chat_id = R[r2].chat_id
         /\ R[r1].system_key # NoKey) => R[r1].system_key # R[r2].system_key

C18_UniqueSystemKey == NoDuplicateKey(rules)

\* C18's case: a migration between two chats that both had a rule of one system_key
\* has happened, and both keys of the catalog are stored
C18_Witness ==
    /\ IsMigrate
    /\ pcall.collided # {}
    /\ \E r1 \in DOMAIN rules, r2 \in DOMAIN rules :
          /\ rules[r1].exists /\ rules[r2].exists
          /\ rules[r1].chat_id = rules[r2].chat_id
          /\ rules[r1].system_key = "feed" /\ rules[r2].system_key = "water"

-----------------------------------------------------------------------------
(* Properties of the content picker *)

IsChoice == pcall.fn = "weighted_choice"

Positive(options) == {k \in 1..Len(options) : options[k].weight > 0}

\* C19: weighted_choice returns nothing for an empty list and an element of the list
\* otherwise; when some weight is above 0 the result has a weight above 0, every
\* element with a weight above 0 is a possible result and no other element is; when
\* no weight is above 0 the result is the first element
C19_WeightedChoice ==
    IsChoice =>
        /\ pcall.options = <<>> => pret = 0
        /\ pcall.options # <<>> => pret \in 1..Len(pcall.options)
        /\ Positive(pcall.options) # {} =>
              /\ pret \in Positive(pcall.options)
              /\ \A k \in Positive(pcall.options) :
                    \E rnd \in 0..(RandomSteps - 1) : weighted_choice(pcall.options, rnd) = k
        /\ (pcall.options # <<>> /\ Positive(pcall.options) = {}) => pret = 1

\* the last of three options is returned, the first has weight 0 and the second a
\* weight above 0
C19_Witness ==
    /\ IsChoice
    /\ Len(pcall.options) = 3
    /\ pcall.options[1].weight = 0
    /\ pcall.options[2].weight > 0
    /\ pret = 3

IsPick == pcall.fn = "pick_system_content"

ImageSelected == IsPick /\ pret.image_option_id # None

\* the options of a list as a set
Options(list) == {list[i] : i \in 1..Len(list)}

\* the text options tied to the selected image, and those tied to no image
TiedTexts == {t \in Options(pcall.text_options) : t.image_option_id = pret.image_option_id}

UntiedTexts == {t \in Options(pcall.text_options) : t.image_option_id = None}

TextAmong(options) == \E t \in options : pret.text = t.text

\* the selected image does not have weight 0 when some available image has a weight
\* above 0
C20_Image ==
    ImageSelected =>
        LET available == {i \in Options(pcall.image_options) :
                             i.ref_type = "path" => i.ref \in Files}
        IN  (\E i \in available : i.weight > 0) =>
                \A i \in Options(pcall.image_options) :
                    i.id = pret.image_option_id => i.weight # 0

\* C20 as stated: the selected image never has weight 0 when some available image has a
\* weight above 0, and the returned text is that of an option tied to the selected
\* image or, only if no option is tied to it, of an option tied to no image; the text
\* of an option tied to a different image is never returned
C20_TextOfSelectedImage ==
    /\ C20_Image
    /\ (ImageSelected /\ pcall.text_options # <<>>) =>
          IF TiedTexts # {} THEN TextAmong(TiedTexts) ELSE TextAmong(UntiedTexts)

\* C20, amended: the selected image never has weight 0 when some available image has a
\* weight above 0, and the returned text is that of an option tied to the selected
\* image or, only if no option is tied to it, of an option tied to no image or, only
\* if there is no such option either, of any text option; the text of an option tied
\* to a different image is returned in that last case only
C20_TextOfSelectedImageOrLastResort ==
    /\ C20_Image
    /\ (ImageSelected /\ pcall.text_options # <<>>) =>
          IF TiedTexts # {} THEN TextAmong(TiedTexts)
          ELSE IF UntiedTexts # {} THEN TextAmong(UntiedTexts)
          ELSE TextAmong(Options(pcall.text_options))

\* of an image of weight 0 and one of weight 1, both available, the second is selected,
\* and the text returned is tied to the first, no text being tied to the second or to
\* no image
C20_Witness ==
    /\ ImageSelected
    /\ Len(pcall.image_options) = 2
    /\ pcall.image_options[1].weight = 0
    /\ pcall.image_options[1].ref_type = "file_id"
    /\ pret.image_option_id = pcall.image_options[2].id
    /\ TiedTexts = {}
    /\ UntiedTexts = {}
    /\ \E t \in Options(pcall.text_options) :
          pret.text = t.text /\ t.image_option_id = pcall.image_options[1].id

-----------------------------------------------------------------------------
(* Properties of the weekday mapping *)

\* Monday..Saturday go to 1..6 and Sunday to 0
Mapped == [d \in Weekdays |-> IF d = 6 THEN 0 ELSE d + 1]

\* C21: a weekly rule is armed on one recurring timer whose weekdays are exactly the
\* images of its stored days under d -> (d + 1) mod 7, Monday to 1, Saturday to 6 and
\* Sunday to 0; the images are weekdays 0..6 and distinct days have distinct images
C21_WeekdayMapping ==
    pcall.fn = "_schedule_rule_job" =>
        /\ pret.timers = 1 /\ pret.recurring
        /\ pret.days = {Mapped[d] : d \in pcall.days}
        /\ pret.days = {(d + 1) % 7 : d \in pcall.days}
        /\ pret.days \subseteq Weekdays
        /\ Cardinality(pret.days) = Cardinality(pcall.days)
        /\ pcall.days = Weekdays => pret.days = Weekdays

\* a rule stored for Monday, Saturday and Sunday is armed on 1, 6 and 0
C21_Witness ==
    /\ pcall.fn = "_schedule_rule_job"
    /\ pcall.days = {0, 5, 6}
    /\ pret.days = {1, 6, 0}

-----------------------------------------------------------------------------
(* Properties of the administrator check *)

\* the check of the run has returned
Checked == tasks.pc \in {"checked", "done"}

CheckKey == <<tasks.chat_id, tasks.user_id>>

\* the run found no unexpired entry for its key
CacheMiss ==
    /\ is_group(tasks.chat_type)
    /\ ~(tasks.cache0[CheckKey].present /\ tasks.cache0[CheckKey].expires_at > tasks.now_ts)

\* tasks.attempt counts the queries made
C22_Verdict ==
    Checked =>
        /\ ~is_group(tasks.chat_type) => (tasks.allowed /\ tasks.ok /\ tasks.attempt = 0)
        /\ CacheMiss =>
              /\ tasks.attempt \in 1..3
              /\ tasks.succeeded =>
                    /\ tasks.ok
                    /\ bot_data.admin_check_cache[CheckKey] =
                          [present |-> TRUE, allowed |-> tasks.allowed,
                           expires_at |-> tasks.now_ts + 120]
              /\ ~tasks.succeeded =>
                    /\ tasks.attempt = 3 /\ ~tasks.allowed /\ ~tasks.ok
                    /\ \A k \in CacheKeys :
                          bot_data.admin_check_cache[k] =
                             IF k = CheckKey THEN NoEntry ELSE tasks.cache0[k]
        /\ (~tasks.allowed /\ ~tasks.ok) => ~tasks.succeeded

\* from the first query of the check on, a run whose verdict is not ok changes neither
\* the repository nor the timers
C22_NothingAfterCheck ==
    (tasks.pc = "query" \/ (tasks.pc = "checked" /\ ~tasks.ok)) =>
        /\ chats' = chats /\ rules' = rules /\ rule_seq' = rule_seq
        /\ timers' = timers /\ gen' = gen

\* C22 as stated: (true, true) in a one-to-one chat without a query; on a cache miss in
\* a group at most 3 queries, the verdict of the first successful one cached and
\* returned with ok, (false, false) and nothing cached after 3 failures; never (false,
\* false) after a success; and a handler whose check is not ok has changed neither
\* the repository nor the timers
C22_AdminCheck ==
    /\ []C22_Verdict
    /\ [][C22_NothingAfterCheck]_vars
    /\ []((tasks.pc = "done" /\ ~tasks.ok) =>
             (chats = tasks.before.chats /\ rules = tasks.before.rules))

\* C22, amended: the same verdicts, and a handler whose check is not ok changes neither
\* the repository nor the timers once the check has begun; /start and /menu have by
\* then given the chat its row and reconciled the system catalog into it, the other
\* handlers have changed nothing
C22_AdminCheckThenNothing ==
    /\ []C22_Verdict
    /\ [][C22_NothingAfterCheck]_vars
    /\ []((tasks.pc = "done" /\ ~tasks.ok) =>
             \/ chats = tasks.before.chats /\ rules = tasks.before.rules
             \/ /\ tasks.handler \in {"cmd_start", "cmd_menu"}
                /\ chats = upsert_chat(tasks.before.chats, tasks.chat_id)
                /\ \A r \in DbRuleIds :
                      rules[r] # tasks.before.rules[r] =>
                         rules[r].is_system \/ tasks.before.rules[r].is_system)

\* /start in a group the bot has no row for: the three queries fail, the verdict is
\* (false, false), and the chat has its row and its system rule
C22_Witness ==
    /\ tasks.pc = "done"
    /\ tasks.handler = "cmd_start"
    /\ tasks.attempt = 3 /\ ~tasks.ok /\ ~tasks.allowed
    /\ ~tasks.before.chats[tasks.chat_id].exists
    /\ chats[tasks.chat_id].exists
    /\ \E r \in DbRuleIds : rules[r].exists /\ rules[r].chat_id = tasks.chat_id

-----------------------------------------------------------------------------
(* Properties of the rule wizard *)

\* a step leaves a rule's row as it is but for the columns a system rule's
\* administrator may set
KeptButSwitchAndSchedule(r) ==
    rules'[r] = [rules[r] EXCEPT !.enabled = rules'[r].enabled,
                                 !.time_hhmm = rules'[r].time_hhmm,
                                 !.interval_minutes = rules'[r].interval_minutes,
                                 !.user_customized = rules'[r].user_customized]

SystemRuleKept ==
    \A r \in DbRuleIds : rules[r].exists /\ rules[r].is_system => KeptButSwitchAndSchedule(r)

\* C23: no button press, text reply or photo upload deletes a system rule or changes
\* its title, message_text or image_file_id; all a handler changes of a system rule is
\* enabled, time_hhmm / interval_minutes and user_customized
C23_SystemRulesProtected == [][SystemRuleKept]_vars

\* the system rule has been given another time by an administrator, and is the rule it was
C23_Witness ==
    /\ rules[1].exists /\ rules[1].is_system /\ rules[1].user_customized
    /\ rules[1].time_hhmm = "09:05"
    /\ rules[1].title = "Feed"

\* a step writes a new row of rules
RuleCreated == \E r \in DbRuleIds : ~rules[r].exists /\ rules'[r].exists

\* a step changes what the wizard's text stages edit in a stored rule
RuleEdited ==
    \E r \in DbRuleIds :
       /\ rules[r].exists /\ rules'[r].exists
       /\ \/ rules'[r].title # rules[r].title
          \/ rules'[r].message_text # rules[r].message_text
          \/ rules'[r].time_hhmm # rules[r].time_hhmm
          \/ rules'[r].interval_minutes # rules[r].interval_minutes

DraftExpired == user_data.draft_rule.present /\ is_expired(user_data.draft_rule, now)

\* C29: once the clock is past a draft's expires_at_ts, no step of the wizard creates
\* a rule from it or applies an edit from it to a stored rule
C29_ExpiredDraftUnrecoverable == [][DraftExpired => ~RuleCreated /\ ~RuleEdited]_vars

\* the draft that on_text finds: stored for the chat and not expired
DraftFound ==
    /\ user_data.draft_rule.present
    /\ user_data.draft_rule.chat_id = WizChat
    /\ ~is_expired(user_data.draft_rule, now)

\* the replies tried that are an hour 0..23 and a minute 0..59 around a colon, and
\* those that are an integer within 1..10080
TimesInRange == {"9:5"}
MinutesInRange == {"120"}

\* a reply fails the validation of the draft's stage
FailsValidation(draft, text) ==
    CASE draft.stage = "await_time" -> text \notin TimesInRange
      [] draft.stage = "await_interval_custom" -> text \notin MinutesInRange
      [] draft.stage = "await_edit_rule_time" ->
           IF draft.kind = "weekly" THEN text \notin TimesInRange
           ELSE IF draft.kind = "interval" THEN text \notin MinutesInRange
           ELSE FALSE
      [] draft.stage \in {"await_rule_title", "await_rule_text", "await_edit_rule_text",
                          "await_edit_rule_title"} -> text \in {"", " "}
      [] OTHER -> FALSE

\* a reply that fails validation leaves the draft, the repository and the timers alone
RejectedReplyChangesNothing ==
    pcall'.fn = "on_text" /\ DraftFound /\ FailsValidation(user_data.draft_rule, pcall'.text)
    => /\ user_data'.draft_rule = user_data.draft_rule
       /\ chats' = chats /\ rules' = rules /\ rule_seq' = rule_seq
       /\ timers' = timers /\ gen' = gen

\* the draft has a validated schedule, a title and a message text
DraftComplete(draft) ==
    /\ \/ draft.kind = "weekly" /\ draft.time_hhmm \in {ParseTime(t) : t \in TimesInRange}
       \/ draft.kind = "interval" /\ draft.interval_minutes \in 1..10080
    /\ Strip(draft.title) # ""
    /\ Strip(draft.message_text) # ""

\* a rule is created only from a complete draft at one of the two last stages
CreatedFromCompleteDraft ==
    RuleCreated =>
       /\ user_data.draft_rule.present
       /\ user_data.draft_rule.stage \in {"await_rule_image_choice", "await_rule_photo"}
       /\ DraftComplete(user_data.draft_rule)

\* C30 (first half): a text reply that fails validation at its stage leaves the
\* draft's stage and collected fields unchanged, writes nothing to the repository and
\* arms no timer
C30_RejectedReply == [][RejectedReplyChangesNothing]_vars

-----------------------------------------------------------------------------
(* Properties of startup *)

\* the timers armed and not asked to be removed
Armed == {t \in timers : ~t.superseded}

\* C24: when the catalog has degraded to empty, no timer is armed for a rule with
\* is_system set, in any chat, rules stored by earlier runs included
C24_SystemNotificationsDisabled ==
    bot_data.system_rules = <<>> => \A t \in Armed : ~rules[t.rule_id].is_system

SweepUnderWay == tasks.sweep \in {"created", "sync", "process"}

\* bot_data["startup_scheduling_done"] is there and true
FlagSet(B) == "startup_scheduling_done" \in DOMAIN B /\ B.startup_scheduling_done

\* a /start creates its _reschedule task
NewStartTask == tasks'.starts \ tasks.starts # {}

\* C27: from the start of polling to the end of the sweep no /start creates a
\* reschedule_chat_jobs task; the flag startup_scheduling_done is true once the sweep
\* has ended, whatever its outcome, and stays true
C27_StartupGating ==
    /\ [](tasks.sweep = "ended" => FlagSet(bot_data))
    /\ [][(SweepUnderWay => ~NewStartTask) /\ (FlagSet(bot_data) => FlagSet(bot_data'))]_vars

\* a /start was answered while the sweep was at its chats, and created no task
C27_Witness ==
    /\ pcall.fn = "cmd_start" /\ pcall.replied
    /\ pcall.sweep \in {"sync", "process"}
    /\ tasks.starts = {}
    /\ ~FlagSet(bot_data)

\* the chats in flight: their reconciliation, their rescheduling or their notice is
\* being executed
InFlight == Running(tasks.sync) \cup Holding(tasks.proc)

\* C28: during the sweep no more than 4 chats are in flight at a time
C28_AtMostFourInFlight == Cardinality(InFlight) <= 4

\* no more than 4 chats are at their rescheduling or their notice at a time
C28_AtMostFourScheduling == Cardinality(Holding(tasks.proc)) <= 4

-----------------------------------------------------------------------------
(* Properties of a migration found by a firing *)

\* the timers of rule r armed for chat c whose removal was not requested
LiveFor(T, c, r) == {t \in T : t.chat_id = c /\ t.rule_id = r /\ ~t.removed}

\* the rules of the old chat were re-parented and their old timers were cancelled
MigratedRulesMoved(old_id, new_id) ==
    \A r \in get_rules(rules, old_id) :
        /\ rules'[r].exists /\ rules'[r].chat_id = new_id
        /\ \A t \in timers' : t.rule_id = r /\ t.chat_id = old_id => t.removed

\* each enabled rule of the new chat has a timer armed for the new chat
NewChatArmed(new_id) ==
    \A r \in get_rules(rules', new_id) :
        rules'[r].enabled => LiveFor(timers', new_id, r) # {}

\* the timers of a rule armed for chat c that carry its current rule generation
CurrentFor(T, G, c, r) ==
    {t \in LiveFor(T, c, r) : /\ t.name = "rule"
                              /\ HasGeneration(G, c, r, JOB_KIND_RULE)
                              /\ t.gen = G[GenKey(c, r, JOB_KIND_RULE)]}

\* the rule that triggered the migration, if still enabled, has its quick retry
QuickRetry(new_id, rule_id) ==
    LET rule == get_rule(rules', new_id, rule_id)
        current == CurrentFor(timers', gen', new_id, rule_id)
    IN  rule.exists /\ rule.enabled =>
            IF rule.kind = "interval"
            THEN \E t \in current : /\ current = {t}
                                    /\ t.retry_attempt = 1
                                    /\ t.run_at = _retry_dt(1, now')
            ELSE \E t \in LiveFor(timers', new_id, rule_id) :
                    /\ t.name = "rule_retry"
                    /\ t.retry_attempt = 1
                    /\ t.run_at = _retry_dt(1, now')

\* a weekly rule that triggered the migration, if still enabled, has its recurring timer
BesideRecurring(new_id, rule_id) ==
    LET rule == get_rule(rules', new_id, rule_id)
    IN  rule.exists /\ rule.enabled /\ rule.kind = "weekly" =>
            \E t \in CurrentFor(timers', gen', new_id, rule_id) : t.recurring

\* C25: when a firing raises chat-migrated with a new chat id and the storage
\* migration and the reschedule both succeed, then afterwards every rule that
\* belonged to the old chat id belongs to the new one, every timer of those
\* rules armed with the old chat id has had its removal requested, the new
\* chat's enabled rules are armed under the new id, and the rule that triggered
\* the migration, if still enabled, has an accelerated retry with
\* retry_attempt = 1: for an interval rule its only timer carrying the current
\* generation, for a weekly rule a rule_retry timer beside the recurring one.
C25_MigrationStep ==
    last'.op = "migrated" =>
        /\ MigratedRulesMoved(last'.chat_id, NewChatId(last'.chat_id))
        /\ NewChatArmed(NewChatId(last'.chat_id))
        /\ QuickRetry(NewChatId(last'.chat_id), last'.rule_id)
        /\ BesideRecurring(NewChatId(last'.chat_id), last'.rule_id)

C25_MigrationDuringSend == [][C25_MigrationStep]_vars

\* C25, as it holds: the rules are moved, their old timers cancelled and the
\* triggering rule, if still enabled, gets its retry with retry_attempt = 1
\* (for an interval rule its only timer carrying the current generation, for a
\* weekly rule a rule_retry timer); if the new chat is enabled, its enabled
\* rules are armed under the new id and the weekly retry stands beside the
\* recurring timer.
C25_EnabledChatStep ==
    last'.op = "migrated" =>
        /\ MigratedRulesMoved(last'.chat_id, NewChatId(last'.chat_id))
        /\ QuickRetry(NewChatId(last'.chat_id), last'.rule_id)
        /\ chats'[NewChatId(last'.chat_id)].enabled =>
              /\ NewChatArmed(NewChatId(last'.chat_id))
              /\ BesideRecurring(NewChatId(last'.chat_id), last'.rule_id)

C25_MigrationArmsEnabledChat == [][C25_EnabledChatStep]_vars

\* a firing of the weekly rule found the migration: the rule has its retry
\* timer beside its recurring timer, both armed for the new chat
C25_Witness ==
    /\ last.op = "migrated"
    /\ last.rule.kind = "weekly"
    /\ chats[NewChatId(last.chat_id)].enabled
    /\ \E t \in LiveFor(timers, NewChatId(last.chat_id), last.rule_id) :
          t.name = "rule_retry" /\ t.retry_attempt = 1
    /\ \E t \in LiveFor(timers, NewChatId(last.chat_id), last.rule_id) : t.recurring
    /\ \E r \in get_rules(rules, NewChatId(last.chat_id)) : r # last.rule_id

-----------------------------------------------------------------------------
(* Properties of reschedule_rule_job *)

\* the generation tokens of rule q
TokensOf(G, q) == {k \in DOMAIN G : k[2] = q}

\* the scheduling state of every rule but rule_id is as it was
OtherRulesUntouched(rule_id) ==
    \A q \in DOMAIN rules \ {rule_id} :
        /\ {t \in timers' : t.rule_id = q} = {t \in timers : t.rule_id = q}
        /\ TokensOf(gen', q) = TokensOf(gen, q)
        /\ \A k \in TokensOf(gen, q) : gen'[k] = gen[k]
        /\ rules'[q].last_sent_at_ts = rules[q].last_sent_at_ts

\* the rule has one pending rule timer, the current one, or no pending timer
OwnTimer(chat_id, rule_id) ==
    LET rule == get_rule(rules', chat_id, rule_id)
        live == {t \in timers' : t.rule_id = rule_id /\ ~t.removed}
    IN  IF chats'[chat_id].enabled /\ rule.exists /\ rule.enabled
        THEN /\ Cardinality(live) = 1
             /\ live = CurrentFor(timers', gen', chat_id, rule_id)
        ELSE live = {}

\* C26: reschedule_rule_job(chat, r) changes only rule r's scheduling state:
\* the timers, generation tokens, last_sent_at_ts and next-run instants of
\* every other rule, in the same chat or in another, are unchanged; for r
\* itself exactly one current rule timer is pending afterwards if the chat and
\* r are both enabled and r exists, and none otherwise.
C26_RescheduleStep ==
    last'.op = "reschedule_rule_job" =>
        /\ OtherRulesUntouched(last'.rule_id)
        /\ OwnTimer(last'.chat_id, last'.rule_id)

C26_RescheduleRuleJob == [][C26_RescheduleStep]_vars

\* a rule was switched back on beside another rule that has its timer
C26_Witness ==
    /\ last.op = "reschedule_rule_job"
    /\ chats[last.chat_id].enabled
    /\ get_rule(rules, last.chat_id, last.rule_id).enabled
    /\ Cardinality(CurrentFor(timers, gen, last.chat_id, last.rule_id)) = 1
    /\ \E t \in timers : t.rule_id # last.rule_id /\ ~t.removed

-----------------------------------------------------------------------------
(* Properties of send_rule_notification *)

\* send_rule_notification has returned
Notified == pcall.fn = "send_rule_notification"

\* the pick of a system rule gave no text and no image though a text option is stored
EmptyPick ==
    /\ Notified /\ pcall.is_system
    /\ Strip(pret.picked.text) = "" /\ pret.picked.image_ref = ""
    /\ pcall.text_options # <<>>

BodyCalls ==
    {i \in 1..Len(pret.calls) : pret.calls[i].has_text /\ pret.calls[i].text.body # ""}

\* header and body, with the blank line between them, make a caption that fits
CaptionFits == ComposedLen(Composed(pret.header, pret.body_html)) <= CaptionLimit

\* C32: send_rule_notification with an image, for every header length and body
\* length: every photo call carries either no caption or a caption of 1 to
\* 1024 characters; when header plus body fit in 1024 characters there is
\* exactly one platform call; otherwise the photo is sent with the header alone
\* as caption if the header fits and with no caption if it does not, followed
\* by exactly one text message carrying the body when the body is non-empty;
\* the body is never delivered twice and never dropped.
C32_CaptionAndBody ==
    Notified /\ pret.image_ref # "" =>
        /\ \A i \in 1..Len(pret.calls) :
              pret.calls[i].fn = "send_photo" /\ pret.calls[i].has_text =>
                  /\ ComposedLen(pret.calls[i].text) >= 1
                  /\ ComposedLen(pret.calls[i].text) <= CaptionLimit
        /\ pret.calls[1].fn = "send_photo"
        /\ IF CaptionFits
           THEN /\ Len(pret.calls) = 1
                /\ pret.calls[1].text = Composed(pret.header, pret.body_html)
           ELSE /\ pret.calls[1] = IF pret.header > 0 /\ pret.header <= CaptionLimit
                                   THEN send_photo(Composed(pret.header, ""))
                                   ELSE send_photo_bare
                /\ pret.calls = IF pret.body_html # ""
                                THEN <<pret.calls[1], send_message(Composed(0, pret.body_html))>>
                                ELSE <<pret.calls[1]>>
        /\ Cardinality(BodyCalls) = IF pret.body_html # "" THEN 1 ELSE 0

\* header and body are one character too many for a caption: the header is the
\* caption and the body follows in a message of its own
C32_Witness ==
    /\ Notified /\ pret.image_ref # ""
    /\ pret.header + 2 + TextLen(pret.body_html) = CaptionLimit + 1
    /\ pret.calls = <<send_photo(Composed(pret.header, "")),
                      send_message(Composed(0, pret.body_html))>>

-----------------------------------------------------------------------------
(* Properties of the administrator check's cache *)

\* the keys of the entries of a dict
KeysOf(entries) == {entries[j].key : j \in 1..Len(entries)}

\* the positions of the entries of the dict that a step dropped, kept being
\* the keys the step left
Dropped(kept) ==
    {i \in 1..Len(bot_data.admin_check_cache) : bot_data.admin_check_cache[i].key \notin kept}

\* the run stored the verdict of its query in this step
StoresVerdict(run) == tasks[run].pc = "query" /\ tasks'[run].pc = "returned" /\ tasks'[run].ok

\* the run returned a cached verdict in this step
ReturnsCached(run) == tasks[run].pc = "idle" /\ tasks'[run].pc = "returned"

\* a store keeps what it stored and evicts the expired entries first, then the
\* oldest of the others; expired is what the check that stores takes for
\* expired, at its own time
EvictionInOrder ==
    \A run \in CacheRuns : StoresVerdict(run) =>
        \A kept \in {KeysOf(bot_data.admin_check_cache')} :
        \A dropped \in {Dropped(kept)} :
        \A evicted \in {{i \in dropped :
                           bot_data.admin_check_cache[i].expires_at > tasks[run].now_ts}} :
            /\ tasks[run].key \in kept
            /\ evicted # {} =>
                  \A i \in 1..Len(bot_data.admin_check_cache) :
                      bot_data.admin_check_cache[i].expires_at <= tasks[run].now_ts
                          => i \in dropped
            /\ \A i \in evicted : \A j \in 1..i :
                  bot_data.admin_check_cache[j].expires_at > tasks[run].now_ts
                      => j \in evicted
            /\ \A i \in 1..Len(bot_data.admin_check_cache') :
                  bot_data.admin_check_cache'[i].key = tasks[run].key =>
                      bot_data.admin_check_cache'[i].expires_at
                          = tasks[run].now_ts + ADMIN_CHECK_CACHE_TTL_S

\* a verdict comes from the cache only strictly before its expiry
CachedBeforeExpiry ==
    \A run \in CacheRuns : ReturnsCached(run) =>
        \E i \in 1..Len(bot_data.admin_check_cache) :
           /\ bot_data.admin_check_cache[i].key = tasks'[run].key
           /\ bot_data.admin_check_cache[i].allowed = tasks'[run].allowed
           /\ now < bot_data.admin_check_cache[i].expires_at

\* no step leaves more than ADMIN_CHECK_CACHE_MAX_SIZE entries
SizeKept == Len(bot_data.admin_check_cache') <= ADMIN_CHECK_CACHE_MAX_SIZE

\* C33: whenever check_admin_in_groups has returned, the cache holds at most
\* 1000 entries; eviction removes every expired entry before it removes any
\* unexpired one and then removes unexpired entries oldest-inserted first; a
\* cached verdict is returned without a platform query only while the current
\* time is strictly before its expiry, which is the time of the check that
\* stored it plus 120 seconds.
C33_AdminCheckCache == [][SizeKept /\ EvictionInOrder /\ CachedBeforeExpiry]_vars

\* the full dict took one more verdict: the oldest entry, not yet expired, went
C33_Witness ==
    /\ Len(bot_data.admin_check_cache) = ADMIN_CHECK_CACHE_MAX_SIZE
    /\ Position(bot_data.admin_check_cache, <<1, 10>>) = 0
    /\ bot_data.admin_check_cache[1].expires_at > now
    /\ \E run \in CacheRuns :
          /\ tasks[run].pc = "returned" /\ tasks[run].queried /\ tasks[run].ok
          /\ Position(bot_data.admin_check_cache, tasks[run].key) = ADMIN_CHECK_CACHE_MAX_SIZE

-----------------------------------------------------------------------------
(* Properties of the firings of interval rules *)

\* the steps in which a firing that sent finishes
FinishOps == {"ok", "error", "migrated", "migrated_no_id"}

\* the rule is enabled in an enabled chat
RuleActive(r) ==
    /\ rules[r].exists /\ rules[r].enabled
    /\ chats[rules[r].chat_id].exists /\ chats[rules[r].chat_id].enabled

\* C34: interval rules never stall: after any firing of the current timer of
\* an interval rule has finished, whatever the outcome of the send (success,
\* delivery error, chat-migrated with or without a new chat id), a timer
\* carrying the current generation is pending for that rule as long as the
\* rule and its chat are enabled.
C34_IntervalNeverStalls ==
    last.op \in FinishOps /\ last.rule.kind = "interval" /\ RuleActive(last.rule_id) =>
        CurrentFor(timers, gen, rules[last.rule_id].chat_id, last.rule_id) # {}

\* the same for the firings that end with a successful send or a delivery
\* error while no handler ran during the send
C34_IntervalRearmed ==
    last.op \in {"ok", "error"} /\ last.rule.kind = "interval" /\ RuleActive(last.rule_id)
        /\ rules[last.rule_id].chat_id = last.chat_id /\ budget.admin = MaxAdmin =>
            CurrentFor(timers, gen, last.chat_id, last.rule_id) # {}

\* C35: a firing never re-arms a rule from outdated data: if an administrator
\* changes an interval rule's interval_minutes (set_rule_interval_minutes
\* followed by reschedule_rule_job) while a firing of that rule is suspended in
\* its send, then once the firing has finished the rule's timer carrying the
\* current generation, when it is not a retry, is computed from the stored
\* interval_minutes, not from the value the firing loaded before the send.
C35_RearmedFromStoredInterval ==
    last.op \in {"ok", "error"} /\ last.rule.kind = "interval" /\ RuleActive(last.rule_id)
        /\ rules[last.rule_id].chat_id = last.chat_id
        /\ <<last.chat_id, last.rule_id>> \notin tasks =>
            \A t \in CurrentFor(timers, gen, last.chat_id, last.rule_id) :
                t.retry_attempt = 0 =>
                    t.run_at = _compute_next_interval_run_dt(rules[last.rule_id], now)

\* the same for the firings during which the rule's interval was not edited
C35_RearmedWhenNotEdited ==
    last.op \in {"ok", "error"} /\ last.rule.kind = "interval" /\ RuleActive(last.rule_id)
        /\ rules[last.rule_id].chat_id = last.chat_id
        /\ rules[last.rule_id].interval_minutes = last.rule.interval_minutes =>
            \A t \in CurrentFor(timers, gen, last.chat_id, last.rule_id) :
                t.retry_attempt = 0 =>
                    t.run_at = _compute_next_interval_run_dt(rules[last.rule_id], now)

-----------------------------------------------------------------------------
(* Properties of repeated migration signals *)

\* the settings of a chat's row
SettingsOf(chat) ==
    [enabled |-> chat.enabled, timezone |-> chat.timezone, include_meta |-> chat.include_meta]

\* a migration found by a firing was handled and no firing is under way
MigrationsHandled == last.op = "migrated" /\ inflight = {}

\* C36: chat-id migration preserves chat settings under repeated signals: when
\* several firings of rules of the same old chat each raise chat-migrated old
\* to new, after all of them have been handled the new chat's enabled,
\* timezone and include_meta equal the values the old chat had before the
\* first migration, no row exists for the old chat id, and no rule of the chat
\* has been lost.
C36_SettingsSurviveRepeatedSignals ==
    MigrationsHandled =>
        /\ SettingsOf(chats[NewChatId(last.chat_id)]) = SettingsOf(TwoRulesState.chats[1])
        /\ ~chats[last.chat_id].exists
        /\ \A r \in get_rules(TwoRulesState.rules, 1) :
              get_rule(rules, NewChatId(last.chat_id), r).exists

\* the same without include_meta
C36_RowAndRulesSurvive ==
    MigrationsHandled =>
        /\ chats[NewChatId(last.chat_id)].enabled = TwoRulesState.chats[1].enabled
        /\ chats[NewChatId(last.chat_id)].timezone = TwoRulesState.chats[1].timezone
        /\ ~chats[last.chat_id].exists
        /\ \A r \in get_rules(TwoRulesState.rules, 1) :
              get_rule(rules, NewChatId(last.chat_id), r).exists

-----------------------------------------------------------------------------
(* Properties of a reconciliation beside the handlers *)

AdminOps == {"toggle_rule_enabled", "set_rule_time_hhmm", "set_rule_interval_minutes"}

\* an administrator's change of the system rule the pass is at has committed
\* after the pass selected the row, and the pass has not written yet
EditedSinceSelect ==
    /\ tasks.phase = "update"
    /\ tasks.sel.found
    /\ pcall.fn \in AdminOps
    /\ pcall.chat_id = tasks.chat_id
    /\ pcall.rule_id = tasks.sel.rule_id
    /\ rules[pcall.rule_id].is_system
    /\ rules[pcall.rule_id].user_customized

\* the pass writes the row it selected
PassWrites == tasks.phase = "update" /\ tasks'.phase # "update"

SameSchedule(a, b) ==
    /\ a.enabled = b.enabled
    /\ a.time_hhmm = b.time_hhmm
    /\ a.interval_minutes = b.interval_minutes

\* C37: no lost update between an administrator and the reconciler: if
\* toggle_rule_enabled, set_rule_time_hhmm or set_rule_interval_minutes on a
\* system rule commits while a reconciliation pass for the same chat is between
\* its read of user_customized and its write of the schedule and enabled fields,
\* then after both have finished the rule's enabled flag and schedule field hold
\* the administrator's values.
C37_NoLostUpdate ==
    [][EditedSinceSelect /\ PassWrites
          => SameSchedule(rules'[tasks.sel.rule_id], rules[tasks.sel.rule_id])]_vars

\* the pass keeps the enabled flag and the schedule of a rule that it read as
\* customized
C37_KeptWhenReadCustomized ==
    [][PassWrites /\ tasks.sel.found /\ tasks.sel.user_customized
          => SameSchedule(rules'[tasks.sel.rule_id], rules[tasks.sel.rule_id])]_vars

-----------------------------------------------------------------------------
(* Properties of the scheduling of a chat with a rule that cannot be scheduled *)

\* rule r of chat c has a timer
RuleArmed(c, r) ==
    \E t \in timers : t.name = "rule" /\ t.chat_id = c /\ t.rule_id = r /\ ~t.removed

\* reschedule_chat_jobs has just run on an enabled chat
Rescheduled == last.op = "reschedule_chat_jobs" /\ chats[last.chat_id].enabled

\* the enabled rules of chat c whose schedule is valid
Schedulable(c) ==
    {r \in get_rules(rules, c) : rules[r].enabled /\ ~_schedule_rule_job_raises(rules[r])}

\* the enabled rules of chat c whose scheduling raises
Unschedulable(c) ==
    {r \in get_rules(rules, c) : rules[r].enabled /\ _schedule_rule_job_raises(rules[r])}

\* C38: one bad rule does not block the others: reschedule_chat_jobs on an
\* enabled chat arms a timer for every enabled rule whose schedule is valid even
\* when another enabled weekly rule of the chat has a time_hhmm that is not a
\* valid hour:minute, regardless of the order of the rules.
C38_BadRuleBlocksNoOther ==
    Rescheduled => \A r \in Schedulable(last.chat_id) : RuleArmed(last.chat_id, r)

\* the rules that come before every rule that cannot be scheduled are armed, and
\* no rule after such a rule is
C38_ArmedUpToBadRule ==
    Rescheduled =>
        \A r \in Schedulable(last.chat_id) :
            RuleArmed(last.chat_id, r)
                <=> \A b \in Unschedulable(last.chat_id) : ComesBefore(rules, r, b)

-----------------------------------------------------------------------------
(* Properties of a reconciliation with an entry of another kind *)

\* a reconciliation pass has just returned
Reconciled == pcall.fn = "sync_system_rules_for_chat"

\* C39: after a reconciliation pass, every stored system rule of the chat has
\* the same kind (weekly or interval) as the catalog entry with its system_key,
\* also when the catalog entry's kind was changed since the rule was first
\* created, so the schedule field that the scheduler reads for the stored kind
\* is the one the catalog defines.
C39_KindFollowsCatalog ==
    Reconciled =>
        \A i \in 1..Len(pcall.rules) :
            \A r \in SystemRows(rules, pcall.chat_id, pcall.rules[i].system_key) :
                rules[r].kind = pcall.rules[i].kind

\* a stored rule that a step keeps (same chat, same system_key) keeps its kind
C39_KindNeverRewritten ==
    [][\A r \in DbRuleIds :
          /\ rules[r].exists /\ rules'[r].exists
          /\ rules'[r].chat_id = rules[r].chat_id
          /\ rules'[r].system_key = rules[r].system_key
          /\ rules'[r].created_at_ts = rules[r].created_at_ts
          => rules'[r].kind = rules[r].kind]_vars

-----------------------------------------------------------------------------
(* Properties of a send under the configured retry_attempts *)

\* C40: a send reports success only if something was sent: for every configured
\* retry_attempts value, including 0 and negative values, send_message and
\* send_photo return normally only after one platform call has succeeded, so a
\* firing never advances last_sent_at_ts without a delivery.
C40_SuccessOnlyAfterDelivery ==
    /\ sender.pc = "done" /\ sender.raised = "none" => Delivered(sender)
    /\ last.op = "ok" => pret.delivered

\* the same for a retry_attempts of at least 1
C40_DeliveryWhenAttemptsPositive ==
    bot_data.send_options.retry_attempts >= 1 =>
        /\ sender.pc = "done" /\ sender.raised = "none" => Delivered(sender)
        /\ last.op = "ok" => pret.delivered

=============================================================================
